---- MODULE Spec2Model ----
(***************************************************************************)
(* Reward ledger, badge engine and leaderboard cache of the Playful        *)
(* Marketplace services (gamification, order, payment, auth), modelled at  *)
(* the granularity of one store statement per step.                        *)
(***************************************************************************)
EXTENDS Bags, FiniteSets, Integers, Sequences, TLC

\* ---------------------------------------------------------------- bounds
NumUsers == 2
MaxProcs == 2
MaxFaults == 1
MaxPop == 102

SmallPop == 5

Users == 1..NumUsers
Procs == 1..MaxProcs
NoUser == 0

\* ------------------------------------------------------ program constants
SilverXP == 500
GoldXP == 1500
PlatinumXP == 5000
FirstOrderXP == 50
PaymentXP == 10
BigSpenderSpend == 5000
TopSellerSales == 10
EarlyBirdUsers == 100
MaxLimit == 50
DefaultLimit == 10

Roles == {"buyer", "seller"}
Levels == {"bronze", "silver", "gold", "platinum"}
Boards == {"weekly_buyers", "monthly_sellers"}

\* seedBadges: the catalog in insertion order
BadgeCatalog ==
  << [type |-> "first_order", name |-> "First Order", xp_reward |-> 50],
     [type |-> "top_seller",  name |-> "Top Seller",  xp_reward |-> 200],
     [type |-> "big_spender", name |-> "Big Spender", xp_reward |-> 300],
     [type |-> "early_bird",  name |-> "Early Bird",  xp_reward |-> 100],
     [type |-> "reviewer",    name |-> "Reviewer",    xp_reward |-> 150],
     [type |-> "referrer",    name |-> "Referrer",    xp_reward |-> 250] >>

BadgeTypes == {BadgeCatalog[i].type : i \in 1..Len(BadgeCatalog)}

BadgeOf(t) == CHOOSE b \in {BadgeCatalog[i] : i \in 1..Len(BadgeCatalog)} : b.type = t

BadgeReason(t) == "Badge: " \o BadgeOf(t).name

\* ------------------------------------------------------------ inputs
AddXPAmounts == {0, 500, -30}
InitXP == {0, 490}

\* the product catalogue: ids, and an id no product has
Products == 1..3

NoProduct == 0

\* products 1 and 2 are on sale, product 3 is inactive; all belong to seller 2
ProductRow(k) ==
  [exists |-> TRUE, seller_id |-> 2,
   price |-> IF k = 2 THEN 5000 ELSE 100,
   stock |-> IF k = 2 THEN 1 ELSE 2,
   is_active |-> k # 3]

NoProductRow ==
  [exists |-> FALSE, seller_id |-> NoUser, price |-> 0, stock |-> 0, is_active |-> FALSE]

Item(k, q) == [product_id |-> k, quantity |-> q]

\* request bodies of CreateOrder: one item of a product on sale
SingleItemOrders == { << Item(k, 1) >> : k \in {1, 2} }

\* request bodies of CreateOrder: no item, one item, two items, with items
\* that fail (unknown product, inactive product, more than the stock)
OrderInputs ==
  SingleItemOrders \cup
  { << >>,
    << Item(1, 1), Item(2, 1) >>,
    << Item(1, 1), Item(2, 2) >>,
    << Item(1, 1), Item(3, 1) >>,
    << Item(1, 1), Item(NoProduct, 1) >>,
    << Item(1, 2), Item(1, 1) >> }

\* ------------------------------------------------------ Level Resolver

\* calculateLevel with exclusive lower bounds
calculateLevelStrict(xp) ==
  IF xp > PlatinumXP THEN "platinum"
  ELSE IF xp > GoldXP THEN "gold"
  ELSE IF xp > SilverXP THEN "silver"
  ELSE "bronze"

calculateLevel(xp) ==
  IF xp >= PlatinumXP THEN "platinum"
  ELSE IF xp >= GoldXP THEN "gold"
  ELSE IF xp >= SilverXP THEN "silver"
  ELSE "bronze"

authCalculateLevel(xp) ==
  IF xp >= PlatinumXP THEN "platinum"
  ELSE IF xp >= GoldXP THEN "gold"
  ELSE IF xp >= SilverXP THEN "silver"
  ELSE "bronze"

\* ------------------------------------------------------------ state
VARIABLES
  users,            \* users table: id -> row
  orders,           \* orders table (one item per order): sequence of rows
  xp_transactions,  \* xp_transactions table: bag of rows
  user_badges,      \* user_badges table: bag of rows
  procs,            \* requests and detached tasks in flight
  faults,           \* store/cache statements that have failed so far
  lb_zset,          \* redis sorted sets  leaderboard:<type>
  lb_hash,          \* redis hashes       leaderboard:<type>:users
  lbReply,          \* the latest leaderboard response
  xpReply,          \* the latest GetUserXP / GetUserLevel response
  products,         \* products table: id -> row
  lastCheck,        \* per user: what is known about the latest badge check
  xpGranted,        \* per user: sum of the amounts of the counter updates that succeeded
  payments,         \* payments table: sequence of rows, the id is the position
  sessions,         \* redis keys session:<token>, each with its expiry
  otps,             \* redis keys otp:<phone>: the users with a stored OTP
  clock,            \* the wall clock, in seconds
  loggedOut,        \* the tokens for which a Logout has answered 200
  authReply,        \* the latest decision of AuthMiddleware
  product_cache,    \* redis keys product:<id>: the cached row, if any
  productReply,     \* the latest GetProduct response
  lbRead            \* the leaderboard read in progress, if any

payVars == << payments >>
authVars == << sessions, otps, clock, loggedOut, authReply >>
shelfVars == << product_cache, productReply >>
readVars == << lbRead >>
sideVars == << payVars, authVars, shelfVars, readVars >>

vars == << users, orders, xp_transactions, user_badges, products, procs, faults,
           lb_zset, lb_hash, lbReply, xpReply, lastCheck, xpGranted, sideVars >>

dbVars == << users, orders, xp_transactions, user_badges, products >>
cacheVars == << lb_zset, lb_hash >>

NoScore == -1
NoData == [name |-> 0, level |-> "none", badge_count |-> 0]

Tx(u, amt, reason, ref) ==
  [user_id |-> u, amount |-> amt, reason |-> reason, reference |-> ref]

Award(u, t) == [user_id |-> u, badge_type |-> t]

IdleProc ==
  [op |-> "none", pc |-> "idle", user |-> NoUser, amount |-> 0,
   reason |-> "", reference |-> 0, ret |-> "",
   bret |-> "", badge |-> "none",
   oldXP |-> 0, role |-> "none", level |-> "none", spent |-> 0, sales |-> 0,
   existing |-> {}, idx |-> 0, order |-> 0,
   newBadges |-> {}, result |-> "none", response |-> << >>,
   txFailed |-> FALSE, xpAfterFail |-> FALSE, txWritten |-> 0,
   insertFailed |-> FALSE, alone |-> FALSE, prior |-> "none",
   items |-> << >>, txWrites |-> << >>, total |-> 0, built |-> << >>,
   payment |-> 0, method |-> "none", row |-> NoProductRow,
   product |-> NoProduct, loaded |-> << >>, reloading |-> FALSE,
   token |-> << >>]

Active(p) == procs[p].pc \notin {"idle", "done"}

CanFail == faults < MaxFaults

\* another request or task starts: every running one is no longer alone
Disturb(ps) ==
  [q \in DOMAIN ps |-> IF ps[q].pc \notin {"idle", "done"}
                   THEN [ps[q] EXCEPT !.alone = FALSE] ELSE ps[q]]

NoneActive == \A q \in DOMAIN procs : ~Active(q)

RECURSIVE SumAmounts(_)
SumAmounts(S) ==
  IF S = {} THEN 0
  ELSE LET t == CHOOSE x \in S : TRUE
       IN  t.amount * CopiesIn(t, xp_transactions) + SumAmounts(S \ {t})

LedgerSum(u) ==
  SumAmounts({t \in BagToSet(xp_transactions) : t.user_id = u})

OrderCount(u) ==
  Cardinality({i \in 1..Len(orders) : orders[i].buyer_id = u})

\* rows of orders JOIN order_items JOIN products for a seller, delivered
DeliveredSalesRows(u) ==
  Cardinality({ij \in (1..Len(orders)) \X (1..2) :
                 /\ ij[2] <= Len(orders[ij[1]].items)
                 /\ products[orders[ij[1]].items[ij[2]].product_id].seller_id = u
                 /\ orders[ij[1]].status = "delivered"})

OrderSellers(o) ==
  {products[o.items[j].product_id].seller_id : j \in 1..Len(o.items)}

UserCount == Cardinality({u \in DOMAIN users : users[u].exists})

\* the badge types of the awards stored for u: what a read of the user's
\* awards returns when it succeeds
HeldTypes(u) == {a.badge_type : a \in {x \in BagToSet(user_badges) : x.user_id = u}}

NoRow ==
  [exists |-> FALSE, role |-> "none", level |-> "none",
   total_xp |-> 0, total_spent |-> 0, total_sales |-> 0]

RoleOf(u) == IF u % 2 = 1 THEN "buyer" ELSE "seller"

\* no payment, no session and no cached product are in place
SideRest ==
  /\ payments = << >>
  /\ sessions = {}
  /\ clock = 0
  /\ loggedOut = {}
  /\ authReply = << >>
  /\ product_cache = [k \in Products |-> NoProductRow]
  /\ productReply = << >>
  /\ lbRead = << >>

\* the same, and no OTP is waiting
SideIdle == SideRest /\ otps = {}

\* the products exist when their seller does
Catalogue ==
  [k \in Products |->
     IF users[2].exists /\ users[2].role = "seller" THEN ProductRow(k) ELSE NoProductRow]

\* the store after migration and seeding; accounts that already exist are
\* settled: their ledger sums to their balance and their level is resolved,
\* and each has requested an OTP for its next login
Init ==
  /\ users \in [Users -> {NoRow} \cup
                  {[exists |-> TRUE, role |-> r, level |-> calculateLevel(b),
                    total_xp |-> b, total_spent |-> 0, total_sales |-> 0]
                   : r \in Roles, b \in InitXP}]
  /\ \A u \in Users : users[u].exists => users[u].role = RoleOf(u)
  /\ orders = << >>
  /\ xp_transactions =
       SetToBag({Tx(u, users[u].total_xp, "Seed", 0) :
                   u \in {v \in Users : users[v].total_xp # 0}})
  /\ user_badges = EmptyBag
  /\ procs = [p \in Procs |-> IdleProc]
  /\ faults = 0
  /\ lb_zset = [b \in Boards |-> [u \in Users |-> NoScore]]
  /\ lb_hash = [b \in Boards |-> [u \in Users |-> NoData]]
  /\ lbReply = << >>
  /\ xpReply = << >>
  /\ products = Catalogue
  /\ lastCheck = [u \in Users |-> "none"]
  /\ SideRest
  /\ otps = {u \in Users : users[u].exists}
  /\ xpGranted = [u \in Users |-> 0]

\* a finished request or task keeps its outcome; its locals are gone
Settle(rec) ==
  IF rec.pc # "done" THEN rec
  ELSE [IdleProc EXCEPT !.op = rec.op, !.pc = "done", !.user = rec.user,
                        !.order = rec.order, !.amount = rec.amount,
                        !.newBadges = rec.newBadges,
                        !.result = rec.result, !.response = rec.response,
                        !.txFailed = rec.txFailed, !.xpAfterFail = rec.xpAfterFail,
                        !.txWritten = rec.txWritten, !.insertFailed = rec.insertFailed,
                        !.alone = rec.alone, !.prior = rec.prior,
                        !.items = rec.items, !.product = rec.product,
                        !.token = rec.token,
                        !.idx = IF rec.op = "CreateOrder" THEN rec.idx ELSE 0]

\* a request or task enters slot p
\* (slots are taken in order: they are interchangeable)
Start(p, rec) ==
  /\ procs[p].pc = "idle"
  /\ \A q \in DOMAIN procs : q < p => procs[q].pc # "idle"
  /\ procs' = [Disturb(procs) EXCEPT ![p] = Settle(rec)]
  /\ lastCheck' = [u \in Users |-> "none"]

Step(p, rec) == procs' = [procs EXCEPT ![p] = Settle(rec)]

At(p, op, pc) == procs[p].op = op /\ procs[p].pc = pc

\* ----------------------------------------------- GamificationHandler.AddXP
\* validation and the user read; the handler continues statement by statement
AddXP(p, u, a) ==
  /\ Start(p,
       IF a = 0
       THEN [IdleProc EXCEPT !.op = "AddXP", !.pc = "done", !.user = u, !.result = "400"]
       ELSE IF ~users[u].exists
       THEN [IdleProc EXCEPT !.op = "AddXP", !.pc = "done", !.user = u, !.result = "404"]
       ELSE [IdleProc EXCEPT !.op = "AddXP", !.pc = "insert", !.user = u, !.amount = a,
                             !.reason = "Manual", !.oldXP = users[u].total_xp,
                             !.role = users[u].role, !.level = users[u].level,
                             !.spent = users[u].total_spent, !.sales = users[u].total_sales])
  /\ UNCHANGED << sideVars, dbVars, cacheVars, faults, lbReply, xpReply, xpGranted >>

\* database.DB.Create(&xpTransaction); an error ends the request with 500
AddXP_Insert(p) ==
  /\ At(p, "AddXP", "insert")
  /\ LET r == procs[p] IN
     \/ /\ xp_transactions' = xp_transactions (+)
              SetToBag({Tx(r.user, r.amount, r.reason, r.reference)})
        /\ Step(p, [r EXCEPT !.pc = "update", !.txWritten = @ + 1])
        /\ UNCHANGED faults
     \/ /\ CanFail
        /\ faults' = faults + 1
        /\ Step(p, [r EXCEPT !.pc = "done", !.result = "500", !.txFailed = TRUE])
        /\ UNCHANGED xp_transactions
  /\ UNCHANGED << sideVars, products, users, orders, user_badges, cacheVars, lbReply, xpReply, xpGranted, lastCheck >>

\* an update whose failure deletes the transaction the request wrote
AddXP_UpdateUndo(p) ==
  /\ At(p, "AddXP", "update")
  /\ LET r == procs[p] IN
     \/ /\ users' = [users EXCEPT ![r.user].total_xp = r.oldXP + r.amount]
        /\ xpGranted' = [xpGranted EXCEPT ![r.user] = @ + r.amount]
        /\ Step(p, [r EXCEPT !.pc = "level"])
        /\ UNCHANGED << faults, xp_transactions >>
     \/ /\ CanFail
        /\ faults' = faults + 1
        /\ Step(p, [r EXCEPT !.pc = "done", !.result = "500"])
        /\ xp_transactions' = xp_transactions (-)
              SetToBag({Tx(r.user, r.amount, r.reason, r.reference)})
        /\ UNCHANGED << users, xpGranted >>
  /\ UNCHANGED << sideVars, products, orders, user_badges, cacheVars, lbReply, xpReply, lastCheck >>

\* Update("total_xp", newXP) with newXP := oldXP + req.Amount
AddXP_Update(p) ==
  /\ At(p, "AddXP", "update")
  /\ LET r == procs[p] IN
     \/ /\ users' = [users EXCEPT ![r.user].total_xp = r.oldXP + r.amount]
        /\ xpGranted' = [xpGranted EXCEPT ![r.user] = @ + r.amount]
        /\ Step(p, [r EXCEPT !.pc = "level"])
        /\ UNCHANGED faults
     \/ /\ CanFail
        /\ faults' = faults + 1
        /\ Step(p, [r EXCEPT !.pc = "done", !.result = "500"])
        /\ UNCHANGED << users, xpGranted >>
  /\ UNCHANGED << sideVars, products, orders, xp_transactions, user_badges, cacheVars, lbReply, xpReply, lastCheck >>

AddXPResponse(r) ==
  [old_xp |-> r.oldXP, new_xp |-> r.oldXP + r.amount, xp_gained |-> r.amount,
   old_level |-> calculateLevel(r.oldXP),
   new_level |-> calculateLevel(r.oldXP + r.amount),
   leveled_up |-> calculateLevel(r.oldXP + r.amount) # calculateLevel(r.oldXP)]

\* the level-up check, the response, and the hand-over to updateLeaderboards
AddXP_Level(p) ==
  /\ At(p, "AddXP", "level")
  /\ LET r == procs[p]
         resp == AddXPResponse(r)
         next == [r EXCEPT !.pc = "lb_zadd", !.result = "200", !.response = resp,
                           !.level = IF resp.leveled_up THEN resp.new_level ELSE @]
     IN
     /\ Step(p, next)
     /\ IF resp.leveled_up
        THEN \/ /\ users' = [users EXCEPT ![r.user].level = resp.new_level]
                /\ UNCHANGED faults
             \/ /\ CanFail
                /\ faults' = faults + 1
                /\ UNCHANGED users
        ELSE UNCHANGED << users, faults >>
  /\ UNCHANGED << sideVars, products, orders, xp_transactions, user_badges, cacheVars, lbReply, xpReply, xpGranted, lastCheck >>

\* ------------------------------- updateLeaderboards / SetLeaderboardEntry
BoardOf(role) == IF role = "buyer" THEN "weekly_buyers" ELSE "monthly_sellers"

ScoreOf(r) == IF r.role = "buyer" THEN r.spent ELSE r.sales

\* a ZAdd whose failure takes the request's XP back
LB_ZAddUndo(p) ==
  /\ At(p, "AddXP", "lb_zadd")
  /\ LET r == procs[p] IN
     \/ /\ lb_zset' = [lb_zset EXCEPT ![BoardOf(r.role)][r.user] = ScoreOf(r)]
        /\ Step(p, [r EXCEPT !.pc = "lb_hset"])
        /\ UNCHANGED << faults, users >>
     \/ /\ CanFail
        /\ faults' = faults + 1
        /\ Step(p, [r EXCEPT !.pc = "done"])
        /\ users' = [users EXCEPT ![r.user].total_xp = r.oldXP]
        /\ UNCHANGED lb_zset
  /\ UNCHANGED << sideVars, products, orders, xp_transactions, user_badges, lb_hash, lbReply, xpReply, xpGranted, lastCheck >>

\* Client.ZAdd on the ranked set; an error ends the task
LB_ZAdd(p) ==
  /\ At(p, "AddXP", "lb_zadd")
  /\ LET r == procs[p] IN
     \/ /\ lb_zset' = [lb_zset EXCEPT ![BoardOf(r.role)][r.user] = ScoreOf(r)]
        /\ Step(p, [r EXCEPT !.pc = "lb_hset"])
        /\ UNCHANGED faults
     \/ /\ CanFail
        /\ faults' = faults + 1
        /\ Step(p, [r EXCEPT !.pc = "done"])
        /\ UNCHANGED lb_zset
  /\ UNCHANGED << sideVars, dbVars, lb_hash, lbReply, xpReply, xpGranted, lastCheck >>

\* Client.HSet of the display metadata
LB_HSet(p) ==
  /\ At(p, "AddXP", "lb_hset")
  /\ LET r == procs[p] IN
     \/ /\ lb_hash' = [lb_hash EXCEPT ![BoardOf(r.role)][r.user] =
                         [name |-> r.user, level |-> r.level, badge_count |-> 0]]
        /\ UNCHANGED faults
     \/ /\ CanFail
        /\ faults' = faults + 1
        /\ UNCHANGED lb_hash
  /\ Step(p, [procs[p] EXCEPT !.pc = "done"])
  /\ UNCHANGED << sideVars, dbVars, lb_zset, lbReply, xpReply, xpGranted, lastCheck >>

\* ------------------------------------ OrderHandler.callGamificationService
\* database.DB.Create(&xpTransaction); the error is dropped
CGS_Insert(p) ==
  /\ procs[p].pc = "cgs_insert"
  /\ LET r == procs[p] IN
     \/ /\ xp_transactions' = xp_transactions (+)
              SetToBag({Tx(r.user, r.amount, r.reason, r.reference)})
        /\ Step(p, [r EXCEPT !.pc = "cgs_update", !.txWritten = @ + 1])
        /\ UNCHANGED faults
     \/ /\ CanFail
        /\ faults' = faults + 1
        /\ Step(p, [r EXCEPT !.pc = "cgs_update_lost", !.txFailed = TRUE])
        /\ UNCHANGED xp_transactions
  /\ UNCHANGED << sideVars, products, users, orders, user_badges, cacheVars, lbReply, xpReply, xpGranted, lastCheck >>

\* Update("total_xp", gorm.Expr("total_xp + ?", xpAmount)); the error is dropped
CGS_Update(p) ==
  /\ procs[p].pc \in {"cgs_update", "cgs_update_lost"}
  /\ LET r == procs[p] IN
     \/ /\ users' = [users EXCEPT ![r.user].total_xp = @ + r.amount]
        /\ xpGranted' = [xpGranted EXCEPT ![r.user] = @ + r.amount]
        /\ Step(p, [r EXCEPT !.pc = r.ret,
                             !.xpAfterFail = @ \/ (r.pc = "cgs_update_lost")])
        /\ UNCHANGED faults
     \/ /\ CanFail
        /\ faults' = faults + 1
        /\ Step(p, [r EXCEPT !.pc = r.ret])
        /\ UNCHANGED << users, xpGranted >>
  /\ UNCHANGED << sideVars, products, orders, xp_transactions, user_badges, cacheVars, lbReply, xpReply, lastCheck >>

\* the proc record on entry to callGamificationService(u, amt, reason, ref)
CallGS(r, u, amt, reason, ref, ret) ==
  [r EXCEPT !.pc = "cgs_insert", !.user = u, !.amount = amt, !.reason = reason,
            !.reference = ref, !.ret = ret]

\* ----------------------------------------- OrderHandler.checkAndAwardBadge
\* the proc record on entry to checkAndAwardBadge(u, badgeType)
CallBadge(r, u, t, bret) ==
  [r EXCEPT !.pc = "b_user", !.user = u, !.badge = t, !.bret = bret]

\* database.DB.First(&user, userID); any error ends the check
B_User(p) ==
  /\ procs[p].pc = "b_user"
  /\ LET r == procs[p] IN
     \/ /\ Step(p, IF users[r.user].exists
                   THEN [r EXCEPT !.pc = "b_exist", !.spent = users[r.user].total_spent]
                   ELSE [r EXCEPT !.pc = r.bret])
        /\ UNCHANGED faults
     \/ /\ users[r.user].exists
        /\ CanFail
        /\ faults' = faults + 1
        /\ Step(p, [r EXCEPT !.pc = r.bret])
  /\ UNCHANGED << sideVars, dbVars, cacheVars, lbReply, xpReply, xpGranted, lastCheck >>

\* the existence check on user_badges JOIN badges: only err == nil ends the
\* check, so a read that fails counts as "not held"; then the badge lookup,
\* whose error ends the check
B_Exist(p) ==
  /\ procs[p].pc = "b_exist"
  /\ LET r == procs[p] IN
     \/ /\ Step(p, IF r.badge \in HeldTypes(r.user)
                   THEN [r EXCEPT !.pc = r.bret]
                   ELSE [r EXCEPT !.pc = "b_rule"])
        /\ UNCHANGED faults
     \/ /\ r.badge \in HeldTypes(r.user)
        /\ CanFail
        /\ faults' = faults + 1
        /\ Step(p, [r EXCEPT !.pc = "b_rule"])
     \/ /\ r.badge \notin HeldTypes(r.user)
        /\ CanFail
        /\ faults' = faults + 1
        /\ Step(p, [r EXCEPT !.pc = r.bret])
  /\ UNCHANGED << sideVars, dbVars, cacheVars, lbReply, xpReply, xpGranted, lastCheck >>

\* the rule switch of checkAndAwardBadge; a Count whose query fails leaves
\* its counter at 0 (the error is not looked at)
orderShouldAward(t, u, spent, countErr) ==
  CASE t = "first_order" -> (IF countErr THEN 0 ELSE OrderCount(u)) >= 1
    [] t = "top_seller"  ->
         (IF countErr THEN 0 ELSE DeliveredSalesRows(u)) >= TopSellerSales
    [] t = "big_spender" -> spent >= BigSpenderSpend
    [] OTHER -> FALSE

\* the rule switch with its count queries
B_Rule(p) ==
  /\ procs[p].pc = "b_rule"
  /\ LET r == procs[p] IN
     \/ /\ Step(p, IF orderShouldAward(r.badge, r.user, r.spent, FALSE)
                   THEN [r EXCEPT !.pc = "b_insert"]
                   ELSE [r EXCEPT !.pc = r.bret])
        /\ UNCHANGED faults
     \/ /\ r.badge \in {"first_order", "top_seller"}
        /\ orderShouldAward(r.badge, r.user, r.spent, FALSE)
        /\ CanFail
        /\ faults' = faults + 1
        /\ Step(p, IF orderShouldAward(r.badge, r.user, r.spent, TRUE)
                   THEN [r EXCEPT !.pc = "b_insert"]
                   ELSE [r EXCEPT !.pc = r.bret])
  /\ UNCHANGED << sideVars, dbVars, cacheVars, lbReply, xpReply, xpGranted, lastCheck >>

\* an award insert whose failure takes the buyer's spending back
B_InsertUnwind(p) ==
  /\ procs[p].pc = "b_insert"
  /\ LET r == procs[p]
         b == BadgeOf(r.badge)
         after(rr) == IF b.xp_reward > 0
                      THEN CallGS(rr, r.user, b.xp_reward, BadgeReason(r.badge), 0, r.bret)
                      ELSE [rr EXCEPT !.pc = r.bret]
     IN
     \/ /\ user_badges' = user_badges (+) SetToBag({Award(r.user, r.badge)})
        /\ Step(p, after([r EXCEPT !.newBadges = @ \cup {r.badge}]))
        /\ UNCHANGED << faults, users >>
     \/ /\ CanFail
        /\ faults' = faults + 1
        /\ Step(p, after([r EXCEPT !.insertFailed = TRUE]))
        /\ users' = [users EXCEPT ![r.user].total_spent = 0]
        /\ UNCHANGED user_badges
  /\ UNCHANGED << sideVars, products, orders, xp_transactions, cacheVars, lbReply, xpReply, xpGranted, lastCheck >>

\* database.DB.Create(&userBadge), error dropped, then the badge XP
B_Insert(p) ==
  /\ procs[p].pc = "b_insert"
  /\ LET r == procs[p]
         b == BadgeOf(r.badge)
         after(rr) == IF b.xp_reward > 0
                      THEN CallGS(rr, r.user, b.xp_reward, BadgeReason(r.badge), 0, r.bret)
                      ELSE [rr EXCEPT !.pc = r.bret]
     IN
     \/ /\ user_badges' = user_badges (+) SetToBag({Award(r.user, r.badge)})
        /\ Step(p, after([r EXCEPT !.newBadges = @ \cup {r.badge}]))
        /\ UNCHANGED faults
     \/ /\ CanFail
        /\ faults' = faults + 1
        /\ Step(p, after([r EXCEPT !.insertFailed = TRUE]))
        /\ UNCHANGED user_badges
  /\ UNCHANGED << sideVars, products, users, orders, xp_transactions, cacheVars, lbReply, xpReply, xpGranted, lastCheck >>

\* ------------------------------------------------ OrderHandler.CreateOrder
\* the writes of the transaction so far, in order: the value a product's
\* stock was last set to inside the transaction, or its committed value
RECURSIVE StockSeen(_, _)
StockSeen(writes, k) ==
  IF writes = << >> THEN products[k].stock
  ELSE IF writes[Len(writes)].product_id = k THEN writes[Len(writes)].stock
  ELSE StockSeen(SubSeq(writes, 1, Len(writes) - 1), k)

\* tx.First(&product, item.ProductID) finds a row
ProductFound(k) == k \in Products /\ products[k].exists

\* request validation, then tx := database.DB.Begin()
CreateOrder(p, u, items) ==
  /\ users[u].exists
  /\ Start(p,
       IF items = << >>
       THEN [IdleProc EXCEPT !.op = "CreateOrder", !.pc = "done", !.user = u,
                             !.result = "400"]
       ELSE [IdleProc EXCEPT !.op = "CreateOrder", !.pc = "co_item", !.user = u,
                             !.items = items, !.idx = 1])
  /\ UNCHANGED << sideVars, dbVars, cacheVars, faults, lbReply, xpReply, xpGranted >>

\* an item loop that writes the stock outside the transaction
CO_ItemDirect(p) ==
  /\ At(p, "CreateOrder", "co_item")
  /\ LET r == procs[p]
         it == r.items[r.idx]
         k == it.product_id
         fail(code) == [r EXCEPT !.pc = "done", !.result = code]
     IN
     \/ /\ ~ProductFound(k)
        /\ Step(p, fail("404"))
        /\ UNCHANGED << faults, products >>
     \/ /\ ProductFound(k)
        /\ ~(products[k].is_active /\ StockSeen(r.txWrites, k) >= it.quantity)
        /\ Step(p, fail("400"))
        /\ UNCHANGED << faults, products >>
     \/ /\ ProductFound(k)
        /\ products[k].is_active /\ StockSeen(r.txWrites, k) >= it.quantity
        /\ \/ /\ Step(p, [r EXCEPT
                    !.txWrites = Append(@, [product_id |-> k,
                                            stock |-> StockSeen(r.txWrites, k) - it.quantity]),
                    !.total = @ + products[k].price * it.quantity,
                    !.built = Append(@, [product_id |-> k, quantity |-> it.quantity,
                                         price |-> products[k].price]),
                    !.idx = @ + 1,
                    !.pc = IF r.idx = Len(r.items) THEN "co_commit" ELSE "co_item"])
              /\ products' = [products EXCEPT ![k].stock = @ - it.quantity]
              /\ UNCHANGED faults
           \/ /\ CanFail
              /\ faults' = faults + 1
              /\ Step(p, fail("500"))
              /\ UNCHANGED products
  /\ UNCHANGED << sideVars, users, orders, xp_transactions, user_badges, cacheVars, lbReply, xpReply, xpGranted, lastCheck >>

\* one pass of the item loop: tx.First(&product), the availability checks,
\* the order item, and the stock update inside the transaction; every
\* failure rolls the transaction back
CO_Item(p) ==
  /\ At(p, "CreateOrder", "co_item")
  /\ LET r == procs[p]
         it == r.items[r.idx]
         k == it.product_id
         fail(code) == [r EXCEPT !.pc = "done", !.result = code]
     IN
     \/ /\ ~ProductFound(k)
        /\ Step(p, fail("404"))
        /\ UNCHANGED faults
     \/ /\ ProductFound(k)
        /\ ~(products[k].is_active /\ StockSeen(r.txWrites, k) >= it.quantity)
        /\ Step(p, fail("400"))
        /\ UNCHANGED faults
     \/ /\ ProductFound(k)
        /\ products[k].is_active /\ StockSeen(r.txWrites, k) >= it.quantity
        /\ \/ /\ Step(p, [r EXCEPT
                    !.txWrites = Append(@, [product_id |-> k,
                                            stock |-> StockSeen(r.txWrites, k) - it.quantity]),
                    !.total = @ + products[k].price * it.quantity,
                    !.built = Append(@, [product_id |-> k, quantity |-> it.quantity,
                                         price |-> products[k].price]),
                    !.idx = @ + 1,
                    !.pc = IF r.idx = Len(r.items) THEN "co_commit" ELSE "co_item"])
              /\ UNCHANGED faults
           \/ /\ CanFail
              /\ faults' = faults + 1
              /\ Step(p, fail("500"))
  /\ UNCHANGED << sideVars, dbVars, cacheVars, lbReply, xpReply, xpGranted, lastCheck >>

\* the stock values the transaction leaves behind
RECURSIVE ApplyWrites(_, _)
ApplyWrites(prods, writes) ==
  IF writes = << >> THEN prods
  ELSE ApplyWrites([prods EXCEPT ![Head(writes).product_id].stock = Head(writes).stock],
                   Tail(writes))

\* tx.Create(&order), tx.Create(&item) for every item, total_spent + total,
\* tx.Commit(): together or, when one of them fails, not at all; after the
\* commit the handler answers 201 and awardFirstOrderXP runs detached
CO_Commit(p) ==
  /\ At(p, "CreateOrder", "co_commit")
  /\ LET r == procs[p] IN
     \/ /\ orders' = Append(orders, [buyer_id |-> r.user, items |-> r.built,
                                      total_amount |-> r.total, status |-> "pending"])
        /\ products' = ApplyWrites(products, r.txWrites)
        /\ users' = [users EXCEPT ![r.user].total_spent = @ + r.total]
        /\ Step(p, [IdleProc EXCEPT !.op = "FirstOrder", !.pc = "fo_count",
                                    !.user = r.user, !.order = Len(orders) + 1,
                                    !.result = "201", !.alone = r.alone,
                                    !.prior = r.prior])
        /\ UNCHANGED faults
     \/ /\ CanFail
        /\ faults' = faults + 1
        /\ Step(p, [r EXCEPT !.pc = "done", !.result = "500"])
        /\ UNCHANGED << orders, products, users >>
  /\ UNCHANGED << sideVars, xp_transactions, user_badges, cacheVars, lbReply, xpReply, xpGranted, lastCheck >>

\* OrderHandler.awardFirstOrderXP: the order count decides; on a first order
\* callGamificationService(50, "First Order") and then checkAndAwardBadge;
\* a Count that fails leaves 0 and nothing is awarded
FO_Count(p) ==
  /\ At(p, "FirstOrder", "fo_count")
  /\ LET r == procs[p] IN
     \/ /\ Step(p, IF OrderCount(r.user) = 1
                   THEN CallGS([r EXCEPT !.badge = "first_order", !.bret = "done"],
                               r.user, FirstOrderXP, "First Order", 0, "b_user")
                   ELSE [r EXCEPT !.pc = "done"])
        /\ UNCHANGED faults
     \/ /\ OrderCount(r.user) = 1
        /\ CanFail
        /\ faults' = faults + 1
        /\ Step(p, [r EXCEPT !.pc = "done"])
  /\ UNCHANGED << sideVars, dbVars, cacheVars, lbReply, xpReply, xpGranted, lastCheck >>

\* --------------------------------------------- OrderHandler.UpdateOrderStatus
StatusInputs == {"shipped", "delivered"}

\* UpdateOrderStatus behind AuthMiddleware: the order is loaded with its
\* items and their products (404), the caller must be a seller of one of its
\* items (403); the loaded order gets the new status and waits for Save
UpdateOrderStatus(p, s, i, st) ==
  /\ users[s].exists
  /\ LET end(code) == [IdleProc EXCEPT !.op = "Delivered", !.pc = "done",
                                       !.user = s, !.order = i, !.result = code]
     IN
     \/ /\ Start(p, IF i \notin 1..Len(orders) THEN end("404")
                    ELSE IF users[s].role # "seller" THEN end("403")
                    ELSE IF s \notin OrderSellers(orders[i]) THEN end("403")
                    ELSE [IdleProc EXCEPT !.op = "Delivered", !.pc = "uo_save",
                                          !.user = s, !.order = i,
                                          !.loaded = [orders[i] EXCEPT !.status = st]])
        /\ UNCHANGED faults
     \/ /\ CanFail
        /\ faults' = faults + 1
        /\ Start(p, end("404"))
  /\ UNCHANGED << sideVars, dbVars, cacheVars, lbReply, xpReply, xpGranted >>

\* database.DB.Save(&order) writes every column of the order as loaded; its
\* error answers 500; "delivered" starts processDeliveredOrder on the loaded
\* order while the handler goes on to load the order again into it
UO_Save(p) ==
  /\ At(p, "Delivered", "uo_save")
  /\ LET r == procs[p] IN
     \/ /\ orders' = [orders EXCEPT ![r.order] = r.loaded]
        /\ Step(p, [r EXCEPT !.reloading = TRUE, !.idx = 1, !.result = "200",
                             !.pc = IF r.loaded.status = "delivered"
                                    THEN "d_sales" ELSE "uo_reload"])
        /\ UNCHANGED faults
     \/ /\ CanFail
        /\ faults' = faults + 1
        /\ Step(p, [r EXCEPT !.pc = "done", !.result = "500"])
        /\ UNCHANGED orders
  /\ UNCHANGED << sideVars, products, users, xp_transactions, user_badges,
                  cacheVars, lbReply, xpReply, xpGranted, lastCheck >>

\* Preload(...).First(&order, order.ID) has filled the loaded order again
\* and the handler answers
UO_Reload(p) ==
  /\ procs[p].op = "Delivered"
  /\ procs[p].reloading
  /\ LET r == procs[p] IN
     Step(p, [r EXCEPT !.reloading = FALSE,
                       !.pc = IF r.pc = "uo_reload" THEN "done" ELSE @])
  /\ UNCHANGED << sideVars, dbVars, cacheVars, faults, lbReply, xpReply, xpGranted, lastCheck >>

SellerXP(saleAmount) == (saleAmount * 10) \div 100

BuyerXP(totalAmount) == (totalAmount * 5) \div 100

\* processDeliveredOrder, per item of the loaded order: total_sales +
\* saleAmount (error dropped), then the seller's "Product Sale" XP. While the
\* handler fills the loaded order again, the task may find the item missing
\* or without its product: no row is updated and no reward is stored.
D_Sales(p) ==
  /\ At(p, "Delivered", "d_sales")
  /\ LET r == procs[p]
         o == r.loaded
         it == o.items[r.idx]
         sellerID == products[it.product_id].seller_id
         saleAmount == it.price * it.quantity
         xp == SellerXP(saleAmount)
         next == IF r.idx = Len(o.items) THEN "d_buyer" ELSE "d_sales"
         r2 == [r EXCEPT !.idx = @ + 1]
     IN
     \/ /\ Step(p, IF xp > 0
                   THEN CallGS(r2, sellerID, xp, "Product Sale", r.order, next)
                   ELSE [r2 EXCEPT !.pc = next])
        /\ \/ /\ users' = [users EXCEPT ![sellerID].total_sales = @ + saleAmount]
              /\ UNCHANGED faults
           \/ /\ CanFail
              /\ faults' = faults + 1
              /\ UNCHANGED users
     \/ /\ r.reloading
        /\ Step(p, [r2 EXCEPT !.pc = next])
        /\ UNCHANGED << users, faults >>
  /\ UNCHANGED << sideVars, products, orders, xp_transactions, user_badges, cacheVars, lbReply, xpReply, xpGranted, lastCheck >>

\* the buyer's "Order Completed" XP, then the BigSpender check of the buyer
D_Buyer(p) ==
  /\ At(p, "Delivered", "d_buyer")
  /\ LET r == procs[p]
         o == r.loaded
         xp == BuyerXP(o.total_amount)
     IN
     Step(p, IF xp > 0
             THEN CallGS([r EXCEPT !.badge = "big_spender", !.bret = "d_top", !.idx = 1],
                         o.buyer_id, xp, "Order Completed", r.order, "b_user")
             ELSE CallBadge([r EXCEPT !.idx = 1], o.buyer_id, "big_spender", "d_top"))
  /\ UNCHANGED << sideVars, dbVars, cacheVars, faults, lbReply, xpReply, xpGranted, lastCheck >>

\* the TopSeller check of the seller of every item of the loaded order; an
\* item seen without its product checks no user
D_Top(p) ==
  /\ At(p, "Delivered", "d_top")
  /\ LET r == procs[p]
         o == r.loaded
         sellerID == products[o.items[r.idx].product_id].seller_id
         next == IF r.idx = Len(o.items) THEN "done" ELSE "d_top"
     IN
     \/ Step(p, CallBadge([r EXCEPT !.idx = @ + 1], sellerID, "top_seller", next))
     \/ /\ r.reloading
        /\ Step(p, [r EXCEPT !.idx = @ + 1, !.pc = next])
  /\ UNCHANGED << sideVars, dbVars, cacheVars, faults, lbReply, xpReply, xpGranted, lastCheck >>

\* --------------------------- PaymentHandler.completePayment / awardPaymentXP
\* awardPaymentXP, started by completePayment with the payment as reference:
\* First(&order) for the buyer (an error ends the task), then
\* database.DB.Create(&xpTransaction), whose error is dropped
Pay_Insert(p) ==
  /\ At(p, "PaymentXP", "pay_insert")
  /\ LET r == procs[p] IN
     \/ /\ xp_transactions' = xp_transactions (+)
              SetToBag({Tx(r.user, r.amount, r.reason, r.reference)})
        /\ Step(p, [r EXCEPT !.pc = "pay_update", !.txWritten = @ + 1])
        /\ UNCHANGED faults
     \/ /\ CanFail
        /\ faults' = faults + 1
        /\ Step(p, [r EXCEPT !.pc = "pay_update_lost", !.txFailed = TRUE])
        /\ UNCHANGED xp_transactions
     \/ /\ CanFail
        /\ faults' = faults + 1
        /\ Step(p, [r EXCEPT !.pc = "done"])
        /\ UNCHANGED xp_transactions
  /\ UNCHANGED << sideVars, products, users, orders, user_badges, cacheVars, lbReply, xpReply, xpGranted, lastCheck >>

\* Update("total_xp", gorm.Expr("total_xp + ?", 10)); the error is dropped
Pay_Update(p) ==
  /\ procs[p].op = "PaymentXP"
  /\ procs[p].pc \in {"pay_update", "pay_update_lost"}
  /\ LET r == procs[p] IN
     \/ /\ users' = [users EXCEPT ![r.user].total_xp = @ + PaymentXP]
        /\ xpGranted' = [xpGranted EXCEPT ![r.user] = @ + PaymentXP]
        /\ Step(p, [r EXCEPT !.pc = "done",
                             !.xpAfterFail = @ \/ (r.pc = "pay_update_lost")])
        /\ UNCHANGED faults
     \/ /\ CanFail
        /\ faults' = faults + 1
        /\ Step(p, [r EXCEPT !.pc = "done"])
        /\ UNCHANGED << users, xpGranted >>
  /\ UNCHANGED << sideVars, products, orders, xp_transactions, user_badges, cacheVars, lbReply, xpReply, lastCheck >>

\* ----------------------------- GamificationHandler.CheckAndAwardBadges
\* a rule switch in which the review and referral placeholders hold
gamShouldAwardPlaceholders(t, u, spent, countErr) ==
  CASE t = "first_order" -> (IF countErr THEN 0 ELSE OrderCount(u)) >= 1
    [] t = "top_seller"  ->
         (IF countErr THEN 0 ELSE DeliveredSalesRows(u)) >= TopSellerSales
    [] t = "big_spender" -> spent >= BigSpenderSpend
    [] t = "early_bird"  -> (IF countErr THEN 0 ELSE UserCount) <= EarlyBirdUsers
    [] t = "reviewer"    -> TRUE
    [] t = "referrer"    -> TRUE
    [] OTHER -> FALSE

\* the rule switch of checkAndAwardBadges; a Count whose query fails leaves
\* its counter at 0 (the error is not looked at)
gamShouldAward(t, u, spent, countErr) ==
  CASE t = "first_order" -> (IF countErr THEN 0 ELSE OrderCount(u)) >= 1
    [] t = "top_seller"  ->
         (IF countErr THEN 0 ELSE DeliveredSalesRows(u)) >= TopSellerSales
    [] t = "big_spender" -> spent >= BigSpenderSpend
    [] t = "early_bird"  -> (IF countErr THEN 0 ELSE UserCount) <= EarlyBirdUsers
    [] t = "reviewer"    -> FALSE
    [] t = "referrer"    -> FALSE
    [] OTHER -> FALSE

\* catalog entries the loop passes without a store statement: held already,
\* or a rule that is decided from the loaded user alone
NoStatement(i, existing, spent) ==
  LET t == BadgeCatalog[i].type IN
    \/ t \in existing
    \/ /\ t \in {"reviewer", "referrer", "big_spender"}
       /\ ~gamShouldAward(t, NoUser, spent, FALSE)

RECURSIVE NextIdx(_, _, _)
NextIdx(i, existing, spent) ==
  IF i > Len(BadgeCatalog) THEN i
  ELSE IF NoStatement(i, existing, spent) THEN NextIdx(i + 1, existing, spent)
  ELSE i

\* the loop moves to catalog entry i, or the handler responds
CB_Goto(r, i) ==
  LET k == NextIdx(i, r.existing, r.spent) IN
    IF k > Len(BadgeCatalog)
    THEN [r EXCEPT !.pc = "done", !.idx = k, !.result = "200"]
    ELSE [r EXCEPT !.pc = "cb_rule", !.idx = k]

\* what a finished badge check leaves known about the user
CB_Note(rec) ==
  IF rec.pc = "done"
  THEN lastCheck' = [lastCheck EXCEPT ![rec.user] =
                       IF ~rec.alone THEN "none"
                       ELSE IF rec.insertFailed THEN "failed" ELSE "clean"]
  ELSE UNCHANGED lastCheck

CB_Step(p, rec) == Step(p, rec) /\ CB_Note(rec)

\* the handler loads the user
CheckAndAwardBadges(p, u) ==
  /\ Start(p,
       IF ~users[u].exists
       THEN [IdleProc EXCEPT !.op = "CheckBadges", !.pc = "done", !.user = u,
                             !.result = "404"]
       ELSE [IdleProc EXCEPT !.op = "CheckBadges", !.pc = "cb_existing", !.user = u,
                             !.spent = users[u].total_spent,
                             !.alone = NoneActive, !.prior = lastCheck[u]])
  /\ UNCHANGED << sideVars, dbVars, cacheVars, faults, lbReply, xpReply, xpGranted >>

\* checkAndAwardBadges: Find(&badges), Find(&existingBadges) and one
\* First(&badgeInfo) per award give the held badge types; no error is
\* looked at: without the catalog the loop has nothing to do, without the
\* awards nothing counts as held, and an award whose badge is not read
\* does not mark its type
CB_Existing(p) ==
  /\ At(p, "CheckBadges", "cb_existing")
  /\ LET r == procs[p]
         held == HeldTypes(r.user)
     IN
     \/ /\ CB_Step(p, CB_Goto([r EXCEPT !.existing = held], 1))
        /\ UNCHANGED faults
     \/ /\ CanFail
        /\ faults' = faults + 1
        /\ \/ CB_Step(p, [r EXCEPT !.pc = "done", !.result = "200"])
           \/ /\ held # {}
              /\ CB_Step(p, CB_Goto([r EXCEPT !.existing = {}], 1))
           \/ \E t \in held :
                /\ CopiesIn(Award(r.user, t), user_badges) = 1
                /\ CB_Step(p, CB_Goto([r EXCEPT !.existing = held \ {t}], 1))
  /\ UNCHANGED << sideVars, dbVars, cacheVars, lbReply, xpReply, xpGranted >>

\* the rule switch for the current catalog entry
CB_Rule(p) ==
  /\ At(p, "CheckBadges", "cb_rule")
  /\ LET r == procs[p] IN
     \/ /\ CB_Step(p, IF gamShouldAward(BadgeCatalog[r.idx].type, r.user, r.spent, FALSE)
                      THEN [r EXCEPT !.pc = "cb_insert"]
                      ELSE CB_Goto(r, r.idx + 1))
        /\ UNCHANGED faults
     \/ /\ gamShouldAward(BadgeCatalog[r.idx].type, r.user, r.spent, TRUE)
             # gamShouldAward(BadgeCatalog[r.idx].type, r.user, r.spent, FALSE)
        /\ CanFail
        /\ faults' = faults + 1
        /\ CB_Step(p, IF gamShouldAward(BadgeCatalog[r.idx].type, r.user, r.spent, TRUE)
                      THEN [r EXCEPT !.pc = "cb_insert"]
                      ELSE CB_Goto(r, r.idx + 1))
  /\ UNCHANGED << sideVars, dbVars, cacheVars, lbReply, xpReply, xpGranted >>

\* database.DB.Create(&userBadge); only a stored award earns XP and is returned
CB_Insert(p) ==
  /\ At(p, "CheckBadges", "cb_insert")
  /\ LET r == procs[p]
         b == BadgeCatalog[r.idx]
     IN
     \/ /\ user_badges' = user_badges (+) SetToBag({Award(r.user, b.type)})
        /\ CB_Step(p, IF b.xp_reward > 0
                      THEN [r EXCEPT !.pc = "cb_xp_insert", !.amount = b.xp_reward,
                                     !.reason = BadgeReason(b.type),
                                     !.newBadges = @ \cup {b.type}]
                      ELSE CB_Goto([r EXCEPT !.newBadges = @ \cup {b.type}], r.idx + 1))
        /\ UNCHANGED faults
     \/ /\ CanFail
        /\ faults' = faults + 1
        /\ CB_Step(p, CB_Goto([r EXCEPT !.insertFailed = TRUE], r.idx + 1))
        /\ UNCHANGED user_badges
  /\ UNCHANGED << sideVars, products, users, orders, xp_transactions, cacheVars, lbReply, xpReply, xpGranted >>

\* GamificationHandler.awardXP: database.DB.Create(&xpTransaction), error dropped
CB_XPInsert(p) ==
  /\ At(p, "CheckBadges", "cb_xp_insert")
  /\ LET r == procs[p] IN
     \/ /\ xp_transactions' = xp_transactions (+)
              SetToBag({Tx(r.user, r.amount, r.reason, 0)})
        /\ Step(p, [r EXCEPT !.pc = "cb_xp_update", !.txWritten = @ + 1])
        /\ UNCHANGED faults
     \/ /\ CanFail
        /\ faults' = faults + 1
        /\ Step(p, [r EXCEPT !.pc = "cb_xp_update_lost", !.txFailed = TRUE])
        /\ UNCHANGED xp_transactions
  /\ UNCHANGED << sideVars, products, users, orders, user_badges, cacheVars, lbReply, xpReply, xpGranted, lastCheck >>

\* GamificationHandler.awardXP: total_xp = total_xp + amount, error dropped
CB_XPUpdate(p) ==
  /\ procs[p].op = "CheckBadges"
  /\ procs[p].pc \in {"cb_xp_update", "cb_xp_update_lost"}
  /\ LET r == procs[p] IN
     \/ /\ users' = [users EXCEPT ![r.user].total_xp = @ + r.amount]
        /\ xpGranted' = [xpGranted EXCEPT ![r.user] = @ + r.amount]
        /\ CB_Step(p, CB_Goto([r EXCEPT !.xpAfterFail =
                                 @ \/ (r.pc = "cb_xp_update_lost")], r.idx + 1))
        /\ UNCHANGED faults
     \/ /\ CanFail
        /\ faults' = faults + 1
        /\ CB_Step(p, CB_Goto(r, r.idx + 1))
        /\ UNCHANGED << users, xpGranted >>
  /\ UNCHANGED << sideVars, products, orders, xp_transactions, user_badges, cacheVars, lbReply, xpReply >>

\* ------------------------------------ GamificationHandler.UpdateUserLevel
\* the body of UpdateUserLevel's answer
UpdateLevelResponse(oldLevel, totalXP) ==
  [old_level |-> oldLevel, new_level |-> calculateLevel(totalXP),
   leveled_up |-> calculateLevel(totalXP) # oldLevel, total_xp |-> totalXP]

UpdateUserLevel(p, u) ==
  /\ Start(p,
       IF ~users[u].exists
       THEN [IdleProc EXCEPT !.op = "UpdateLevel", !.pc = "done", !.user = u,
                             !.result = "404"]
       ELSE IF calculateLevel(users[u].total_xp) # users[u].level
       THEN [IdleProc EXCEPT !.op = "UpdateLevel", !.pc = "ul_update", !.user = u,
                             !.oldXP = users[u].total_xp, !.level = users[u].level]
       ELSE [IdleProc EXCEPT !.op = "UpdateLevel", !.pc = "done", !.user = u,
                             !.oldXP = users[u].total_xp, !.level = users[u].level,
                             !.result = "200",
                             !.response = UpdateLevelResponse(users[u].level,
                                                              users[u].total_xp)])
  /\ UNCHANGED << sideVars, dbVars, cacheVars, faults, lbReply, xpReply, xpGranted >>

\* Update("level", newLevel); an error ends the request with 500
UL_Update(p) ==
  /\ At(p, "UpdateLevel", "ul_update")
  /\ LET r == procs[p] IN
     \/ /\ users' = [users EXCEPT ![r.user].level = calculateLevel(r.oldXP)]
        /\ Step(p, [r EXCEPT !.pc = "done", !.result = "200",
                             !.response = UpdateLevelResponse(r.level, r.oldXP)])
        /\ UNCHANGED faults
     \/ /\ CanFail
        /\ faults' = faults + 1
        /\ Step(p, [r EXCEPT !.pc = "done", !.result = "500"])
        /\ UNCHANGED users
  /\ UNCHANGED << sideVars, products, orders, xp_transactions, user_badges, cacheVars, lbReply, xpReply, xpGranted, lastCheck >>

\* ------------------------------- JWT, the session store and AuthMiddleware
MaxClock == 1

\* the lifetime of a token and of its session (24 hours), in clock steps
ExpiryTicks == 2

\* GenerateJWT: the signed claims; the token string is a function of the
\* user and of the second of issue (iat and exp are whole seconds)
GenerateJWT(u, now) ==
  [user |-> u, iat |-> now, exp |-> now + ExpiryTicks, signed |-> TRUE]

\* the tokens a request may carry: every token the service can issue, and
\* one that the service did not sign
TokenInputs ==
  {GenerateJWT(u, t) : u \in Users, t \in 0..MaxClock} \cup
  {[GenerateJWT(1, 0) EXCEPT !.signed = FALSE]}

\* ValidateJWT: the signature and the expiry
ValidateJWT(tok) == tok.signed /\ clock < tok.exp

\* redis.SetSession: the key session:<token> is written with its expiry
SetSession(tok) ==
  {s \in sessions : s.token # tok} \cup
  {[token |-> tok, expires_at |-> clock + ExpiryTicks]}

\* redis.GetSession: the key exists and has not expired
GetSession(tok) ==
  \E s \in sessions : s.token = tok /\ clock < s.expires_at

\* redis.DeleteSession
DeleteSession(tok) == {s \in sessions : s.token # tok}

\* what the account handlers leave alone
authFrame == << users, orders, xp_transactions, user_badges, products, procs,
                cacheVars, lbReply, xpReply, lastCheck, xpGranted,
                payVars, shelfVars, readVars >>

\* the decision of AuthMiddleware on a token, with what it found
Decision(tok, found) ==
  [token |-> tok, jwt_valid |-> ValidateJWT(tok), session_found |-> found,
   passed |-> ValidateJWT(tok) /\ found,
   after_logout |-> tok \in loggedOut]

\* what the steps of the account handlers leave alone
authRest == << orders, xp_transactions, user_badges, products,
               cacheVars, lbReply, xpReply, xpGranted,
               payVars, shelfVars, readVars >>

\* a request with this token reaches AuthMiddleware; a session read that
\* fails rejects the request
AuthMiddleware(tok) ==
  /\ \/ /\ authReply' = Decision(tok, GetSession(tok))
        /\ UNCHANGED faults
     \/ /\ CanFail /\ ValidateJWT(tok) /\ GetSession(tok)
        /\ faults' = faults + 1
        /\ authReply' = Decision(tok, FALSE)
  /\ UNCHANGED << authFrame, sessions, otps, clock, loggedOut >>

\* RequestOTP: an OTP is stored for the phone of an existing user
RequestOTP(u) ==
  /\ users[u].exists
  /\ \/ /\ otps' = otps \cup {u}
        /\ UNCHANGED faults
     \/ /\ CanFail
        /\ faults' = faults + 1
        /\ UNCHANGED otps
  /\ UNCHANGED << authFrame, sessions, clock, loggedOut, authReply >>

\* Login: redis.Get of the OTP of the phone and its comparison with the
\* OTP of the request; a missing key, a failed read or another OTP is 401
Login(p, u, otpOK) ==
  /\ LET end(code) == [IdleProc EXCEPT !.op = "Login", !.pc = "done",
                                       !.user = u, !.result = code]
     IN
     \/ /\ Start(p, IF u \in otps /\ otpOK
                    THEN [IdleProc EXCEPT !.op = "Login", !.pc = "lg_user", !.user = u]
                    ELSE end("401"))
        /\ UNCHANGED faults
     \/ /\ u \in otps
        /\ CanFail
        /\ faults' = faults + 1
        /\ Start(p, end("401"))
  /\ UNCHANGED << authRest, users, authVars >>

\* Where("phone = ?").First(&user): the row of the user, or 404
LG_User(p) ==
  /\ At(p, "Login", "lg_user")
  /\ LET r == procs[p] IN
     \/ /\ Step(p, IF users[r.user].exists
                   THEN [r EXCEPT !.pc = "lg_save", !.loaded = users[r.user]]
                   ELSE [r EXCEPT !.pc = "done", !.result = "404"])
        /\ UNCHANGED faults
     \/ /\ CanFail
        /\ faults' = faults + 1
        /\ Step(p, [r EXCEPT !.pc = "done", !.result = "404"])
  /\ UNCHANGED << authRest, users, authVars, lastCheck >>

\* database.DB.Save(&user) after LastLoginAt is set: every column of the row
\* is written as it was read; the error is dropped
LG_Save(p) ==
  /\ At(p, "Login", "lg_save")
  /\ LET r == procs[p] IN
     /\ Step(p, [r EXCEPT !.pc = "lg_session"])
     /\ \/ /\ users' = [users EXCEPT ![r.user] = r.loaded]
           /\ UNCHANGED faults
        \/ /\ CanFail
           /\ faults' = faults + 1
           /\ UNCHANGED users
  /\ UNCHANGED << authRest, authVars, lastCheck >>

\* GenerateJWT for this second and redis.SetSession of its session; a failed
\* write answers 500
LG_Session(p) ==
  /\ At(p, "Login", "lg_session")
  /\ LET r == procs[p]
         tok == GenerateJWT(r.user, clock)
     IN
     \/ /\ sessions' = SetSession(tok)
        /\ Step(p, [r EXCEPT !.pc = "lg_delete", !.token = tok])
        /\ UNCHANGED faults
     \/ /\ CanFail
        /\ faults' = faults + 1
        /\ Step(p, [r EXCEPT !.pc = "done", !.result = "500"])
        /\ UNCHANGED sessions
  /\ UNCHANGED << authRest, users, otps, clock, loggedOut, authReply, lastCheck >>

\* redis.Delete(otpKey) of the used OTP, its error dropped, and the answer
LG_Delete(p) ==
  /\ At(p, "Login", "lg_delete")
  /\ LET r == procs[p] IN
     /\ Step(p, [r EXCEPT !.pc = "done", !.result = "200"])
     /\ \/ /\ otps' = otps \ {r.user}
           /\ UNCHANGED faults
        \/ /\ CanFail
           /\ faults' = faults + 1
           /\ UNCHANGED otps
  /\ UNCHANGED << authRest, users, sessions, clock, loggedOut, authReply, lastCheck >>

\* Logout, the part of AuthMiddleware: the token and the read of its
\* session; a request that passes goes on to the handler
Logout(p, tok) ==
  /\ LET end(code) == [IdleProc EXCEPT !.op = "Logout", !.pc = "done",
                                       !.token = tok, !.result = code]
     IN
     \/ /\ authReply' = Decision(tok, GetSession(tok))
        /\ Start(p, IF ValidateJWT(tok) /\ GetSession(tok)
                    THEN [IdleProc EXCEPT !.op = "Logout", !.pc = "lo_delete",
                                          !.token = tok]
                    ELSE end("401"))
        /\ UNCHANGED faults
     \/ /\ CanFail /\ ValidateJWT(tok) /\ GetSession(tok)
        /\ faults' = faults + 1
        /\ authReply' = Decision(tok, FALSE)
        /\ Start(p, end("401"))
  /\ UNCHANGED << authRest, users, sessions, otps, clock, loggedOut >>

\* Logout, the handler: redis.DeleteSession(session.Token); a key that is
\* gone already is no error; the handler answers 200, a failed delete 500
LO_Delete(p) ==
  /\ At(p, "Logout", "lo_delete")
  /\ LET r == procs[p] IN
     \/ /\ sessions' = DeleteSession(r.token)
        /\ loggedOut' = loggedOut \cup {r.token}
        /\ Step(p, [r EXCEPT !.pc = "done", !.result = "200"])
        /\ UNCHANGED faults
     \/ /\ CanFail
        /\ faults' = faults + 1
        /\ Step(p, [r EXCEPT !.pc = "done", !.result = "500"])
        /\ UNCHANGED << sessions, loggedOut >>
  /\ UNCHANGED << authRest, users, otps, clock, authReply, lastCheck >>

\* UpdateUserProfile behind AuthMiddleware: caller c may update only its own
\* profile (403); the user row is read (404) and waits for Save
UpdateUserProfile(p, c, u) ==
  /\ users[c].exists
  /\ LET end(code) == [IdleProc EXCEPT !.op = "UpdateUserProfile", !.pc = "done",
                                       !.user = u, !.result = code]
     IN
     \/ /\ Start(p, IF c # u THEN end("403")
                    ELSE IF ~users[u].exists THEN end("404")
                    ELSE [IdleProc EXCEPT !.op = "UpdateUserProfile", !.pc = "uu_save",
                                          !.user = u, !.loaded = users[u]])
        /\ UNCHANGED faults
     \/ /\ c = u
        /\ CanFail
        /\ faults' = faults + 1
        /\ Start(p, end("404"))
  /\ UNCHANGED << authRest, users, authVars >>

\* database.DB.Save(&user) with the new name and email: every column of the
\* row is written as it was read; an error answers 500
UU_Save(p) ==
  /\ At(p, "UpdateUserProfile", "uu_save")
  /\ LET r == procs[p] IN
     \/ /\ users' = [users EXCEPT ![r.user] = r.loaded]
        /\ Step(p, [r EXCEPT !.pc = "done", !.result = "200"])
        /\ UNCHANGED faults
     \/ /\ CanFail
        /\ faults' = faults + 1
        /\ Step(p, [r EXCEPT !.pc = "done", !.result = "500"])
        /\ UNCHANGED users
  /\ UNCHANGED << authRest, authVars, lastCheck >>

\* a second passes
Tick ==
  /\ clock < MaxClock
  /\ clock' = clock + 1
  /\ UNCHANGED << authFrame, sessions, otps, loggedOut, authReply, faults >>

\* ------------------------------- AuthHandler.Signup / checkEarlyBirdBadge
\* Signup: the lookup of the phone; a row found answers 409, a lookup that
\* returns any error goes on to create the account
Signup(p, u, role) ==
  /\ LET go == [IdleProc EXCEPT !.op = "EarlyBird", !.pc = "su_create",
                                !.user = u, !.role = role]
     IN
     \/ /\ Start(p, IF users[u].exists
                    THEN [IdleProc EXCEPT !.op = "EarlyBird", !.pc = "done",
                                          !.user = u, !.result = "409"]
                    ELSE go)
        /\ UNCHANGED faults
     \/ /\ users[u].exists
        /\ CanFail
        /\ faults' = faults + 1
        /\ Start(p, go)
  /\ UNCHANGED << sideVars, dbVars, cacheVars, lbReply, xpReply, xpGranted >>

\* database.DB.Create(&user): the unique index on phone refuses a second
\* row; every error answers 500
SU_Create(p) ==
  /\ At(p, "EarlyBird", "su_create")
  /\ LET r == procs[p] IN
     \/ /\ ~users[r.user].exists
        /\ users' = [users EXCEPT ![r.user] =
                       [exists |-> TRUE, role |-> r.role, level |-> "bronze",
                        total_xp |-> 0, total_spent |-> 0, total_sales |-> 0]]
        /\ Step(p, [r EXCEPT !.pc = "su_session"])
        /\ UNCHANGED faults
     \/ /\ users[r.user].exists
        /\ Step(p, [r EXCEPT !.pc = "done", !.result = "500"])
        /\ UNCHANGED << users, faults >>
     \/ /\ ~users[r.user].exists
        /\ CanFail
        /\ faults' = faults + 1
        /\ Step(p, [r EXCEPT !.pc = "done", !.result = "500"])
        /\ UNCHANGED users
  /\ UNCHANGED << sideVars, products, orders, xp_transactions, user_badges,
                  cacheVars, lbReply, xpReply, xpGranted, lastCheck >>

\* GenerateJWT and redis.SetSession; a session-store error answers 500
\* without starting the badge task, else checkEarlyBirdBadge starts
SU_Session(p) ==
  /\ At(p, "EarlyBird", "su_session")
  /\ LET r == procs[p] IN
     \/ /\ sessions' = SetSession(GenerateJWT(r.user, clock))
        /\ Step(p, [r EXCEPT !.pc = "eb_count", !.result = "200"])
        /\ UNCHANGED faults
     \/ /\ CanFail
        /\ faults' = faults + 1
        /\ Step(p, [r EXCEPT !.pc = "done", !.result = "500"])
        /\ UNCHANGED sessions
  /\ UNCHANGED << payVars, shelfVars, readVars, otps, clock, loggedOut, authReply >>
  /\ UNCHANGED << dbVars, cacheVars, lbReply, xpReply, xpGranted, lastCheck >>

\* checkEarlyBirdBadge: the user count, then the badge lookup; the error of
\* Count is not looked at and a failed Count leaves userCount at 0, which
\* passes; a failed badge lookup ends the task
EB_Count(p) ==
  /\ At(p, "EarlyBird", "eb_count")
  /\ LET r == procs[p] IN
     \/ /\ Step(p, [r EXCEPT !.pc = IF UserCount <= EarlyBirdUsers
                                    THEN "eb_exist" ELSE "done"])
        /\ UNCHANGED faults
     \/ /\ CanFail
        /\ faults' = faults + 1
        /\ \/ /\ UserCount > EarlyBirdUsers
              /\ Step(p, [r EXCEPT !.pc = "eb_exist"])
           \/ /\ UserCount <= EarlyBirdUsers
              /\ Step(p, [r EXCEPT !.pc = "done"])
  /\ UNCHANGED << sideVars, dbVars, cacheVars, lbReply, xpReply, xpGranted, lastCheck >>

\* the existence check by (user_id, badge_id): every error, not only "no
\* row", goes on to the award
EB_Exist(p) ==
  /\ At(p, "EarlyBird", "eb_exist")
  /\ LET r == procs[p] IN
     \/ /\ Step(p, [r EXCEPT !.pc = IF "early_bird" \in HeldTypes(r.user)
                                    THEN "done" ELSE "eb_insert"])
        /\ UNCHANGED faults
     \/ /\ "early_bird" \in HeldTypes(r.user)
        /\ CanFail
        /\ faults' = faults + 1
        /\ Step(p, [r EXCEPT !.pc = "eb_insert"])
  /\ UNCHANGED << sideVars, dbVars, cacheVars, lbReply, xpReply, xpGranted, lastCheck >>

\* database.DB.Create(&userBadge), error dropped, then awardXP
EB_Insert(p) ==
  /\ At(p, "EarlyBird", "eb_insert")
  /\ LET r == procs[p]
         b == BadgeOf("early_bird")
         after(rr) == IF b.xp_reward > 0
                      THEN [rr EXCEPT !.pc = "ax_insert", !.amount = b.xp_reward,
                                      !.reason = "Early Bird Badge"]
                      ELSE [rr EXCEPT !.pc = "done"]
     IN
     \/ /\ user_badges' = user_badges (+) SetToBag({Award(r.user, "early_bird")})
        /\ Step(p, after([r EXCEPT !.newBadges = @ \cup {"early_bird"}]))
        /\ UNCHANGED faults
     \/ /\ CanFail
        /\ faults' = faults + 1
        /\ Step(p, after([r EXCEPT !.insertFailed = TRUE]))
        /\ UNCHANGED user_badges
  /\ UNCHANGED << sideVars, products, users, orders, xp_transactions, cacheVars, lbReply, xpReply, xpGranted, lastCheck >>

\* AuthHandler.awardXP: database.DB.Create(&xpTransaction), error dropped
AX_Insert(p) ==
  /\ At(p, "EarlyBird", "ax_insert")
  /\ LET r == procs[p] IN
     \/ /\ xp_transactions' = xp_transactions (+)
              SetToBag({Tx(r.user, r.amount, r.reason, 0)})
        /\ Step(p, [r EXCEPT !.pc = "ax_update", !.txWritten = @ + 1])
        /\ UNCHANGED faults
     \/ /\ CanFail
        /\ faults' = faults + 1
        /\ Step(p, [r EXCEPT !.pc = "ax_update_lost", !.txFailed = TRUE])
        /\ UNCHANGED xp_transactions
  /\ UNCHANGED << sideVars, products, users, orders, user_badges, cacheVars, lbReply, xpReply, xpGranted, lastCheck >>

\* AuthHandler.awardXP: total_xp = total_xp + amount, error dropped
AX_Update(p) ==
  /\ procs[p].op = "EarlyBird"
  /\ procs[p].pc \in {"ax_update", "ax_update_lost"}
  /\ LET r == procs[p] IN
     \/ /\ users' = [users EXCEPT ![r.user].total_xp = @ + r.amount]
        /\ xpGranted' = [xpGranted EXCEPT ![r.user] = @ + r.amount]
        /\ Step(p, [r EXCEPT !.pc = "ax_read",
                             !.xpAfterFail = @ \/ (r.pc = "ax_update_lost")])
        /\ UNCHANGED faults
     \/ /\ CanFail
        /\ faults' = faults + 1
        /\ Step(p, [r EXCEPT !.pc = "ax_read"])
        /\ UNCHANGED << users, xpGranted >>
  /\ UNCHANGED << sideVars, products, orders, xp_transactions, user_badges, cacheVars, lbReply, xpReply, lastCheck >>

\* AuthHandler.awardXP: the user is read back and its level resolved
AX_Read(p) ==
  /\ At(p, "EarlyBird", "ax_read")
  /\ LET r == procs[p]
         row == users[r.user]
     IN
     \/ /\ Step(p, IF authCalculateLevel(row.total_xp) # row.level
                   THEN [r EXCEPT !.pc = "ax_level", !.oldXP = row.total_xp, !.level = row.level]
                   ELSE [r EXCEPT !.pc = "done"])
        /\ UNCHANGED faults
     \/ /\ authCalculateLevel(row.total_xp) # row.level
        /\ CanFail
        /\ faults' = faults + 1
        /\ Step(p, [r EXCEPT !.pc = "done"])
  /\ UNCHANGED << sideVars, dbVars, cacheVars, lbReply, xpReply, xpGranted, lastCheck >>

\* AuthHandler.awardXP: Update("level", newLevel), error dropped
AX_Level(p) ==
  /\ At(p, "EarlyBird", "ax_level")
  /\ LET r == procs[p] IN
     \/ /\ users' = [users EXCEPT ![r.user].level = authCalculateLevel(r.oldXP)]
        /\ UNCHANGED faults
     \/ /\ CanFail
        /\ faults' = faults + 1
        /\ UNCHANGED users
  /\ Step(p, [procs[p] EXCEPT !.pc = "done"])
  /\ UNCHANGED << sideVars, products, orders, xp_transactions, user_badges, cacheVars, lbReply, xpReply, xpGranted, lastCheck >>

\* ------------------------------------------------ reward specification
Next ==
  \E p \in Procs :
    \/ \E u \in Users, a \in AddXPAmounts : AddXP(p, u, a)
    \/ AddXP_Insert(p)
    \/ AddXP_Update(p)
    \/ AddXP_Level(p)
    \/ LB_ZAdd(p)
    \/ LB_HSet(p)
    \/ \E u \in Users, items \in SingleItemOrders : CreateOrder(p, u, items)
    \/ CO_Item(p)
    \/ CO_Commit(p)
    \/ FO_Count(p)
    \/ CGS_Insert(p)
    \/ CGS_Update(p)
    \/ B_User(p)
    \/ B_Exist(p)
    \/ B_Rule(p)
    \/ B_Insert(p)
    \/ \E s \in Users, i \in 1..MaxProcs, st \in StatusInputs : UpdateOrderStatus(p, s, i, st)
    \/ UO_Save(p)
    \/ UO_Reload(p)
    \/ D_Sales(p)
    \/ D_Buyer(p)
    \/ D_Top(p)
    \/ \E u \in Users : CheckAndAwardBadges(p, u)
    \/ CB_Existing(p)
    \/ CB_Rule(p)
    \/ CB_Insert(p)
    \/ CB_XPInsert(p)
    \/ CB_XPUpdate(p)
    \/ \E u \in Users : UpdateUserLevel(p, u)
    \/ UL_Update(p)
    \/ \E u \in Users, role \in Roles : Signup(p, u, role)
    \/ SU_Create(p)
    \/ SU_Session(p)
    \/ EB_Count(p)
    \/ EB_Exist(p)
    \/ EB_Insert(p)
    \/ AX_Insert(p)
    \/ AX_Update(p)
    \/ AX_Read(p)
    \/ AX_Level(p)
    \/ \E u \in Users : UpdateUserProfile(p, u, u)
    \/ UU_Save(p)
    \/ \E u \in Users : Login(p, u, TRUE)
    \/ LG_User(p)
    \/ LG_Save(p)
    \/ LG_Session(p)
    \/ LG_Delete(p)

Spec == Init /\ [][Next]_vars

\* --------------------------------------------- sequential specification
\* order placements and badge checks with their tasks, each run to
\* its end before the next request starts
NextSeq ==
  \E p \in Procs :
    \/ NoneActive /\ \E u \in Users, items \in SingleItemOrders : CreateOrder(p, u, items)
    \/ CO_Item(p)
    \/ CO_Commit(p)
    \/ FO_Count(p)
    \/ CGS_Insert(p)
    \/ CGS_Update(p)
    \/ B_User(p)
    \/ B_Exist(p)
    \/ B_Rule(p)
    \/ B_Insert(p)
    \/ NoneActive /\ \E u \in Users : CheckAndAwardBadges(p, u)
    \/ CB_Existing(p)
    \/ CB_Rule(p)
    \/ CB_Insert(p)
    \/ CB_XPInsert(p)
    \/ CB_XPUpdate(p)

\* here every account starts without XP
InitSeq == Init /\ \A u \in Users : users[u].total_xp = 0

SpecSeq == InitSeq /\ [][NextSeq]_vars

\* ------------------------------------------------------------ properties
\* slot p is working for user u: as the target of its current award or as
\* the buyer or seller of the order it processes
Involves(p, u) ==
  \/ procs[p].user = u
  \/ /\ procs[p].order \in 1..Len(orders)
     /\ u \in {orders[procs[p].order].buyer_id} \cup OrderSellers(orders[procs[p].order])

\* no request or task is in progress for u
Quiet(u) == \A p \in Procs : Active(p) => ~Involves(p, u)

\* the balance u started with
Balance0(u) ==
  SumAmounts({t \in BagToSet(xp_transactions) : t.user_id = u /\ t.reason = "Seed"})

\* C1: once every award operation for a user has completed, the stored
\* total_xp is the starting balance plus the amount of every award whose
\* counter update went through: no update is lost in any interleaving
\* (stated for runs in which no store statement failed).
C1_NoLostUpdate ==
  \A u \in Users :
    (users[u].exists /\ Quiet(u) /\ faults = 0) =>
      users[u].total_xp = Balance0(u) + xpGranted[u]

\* C2: there is at most one badge award record per (user, badge type).
C2_AtMostOneAward ==
  \A u \in Users, t \in BadgeTypes : CopiesIn(Award(u, t), user_badges) <= 1

\* C3: whenever no reward operation is in progress for a user, the stored
\* level is the Level Resolver's output for the stored total_xp
\* (stated for runs in which no store statement failed).
C3_LevelResolved ==
  \A u \in Users :
    (users[u].exists /\ Quiet(u) /\ faults = 0) =>
      users[u].level = calculateLevel(users[u].total_xp)

\* C4: whenever no reward operation is in progress for a user, the stored
\* total_xp equals the sum of the amounts of the user's XP transactions,
\* also when one of the two writes of an award has failed.
C4_CounterMatchesLedger ==
  \A u \in Users :
    (users[u].exists /\ Quiet(u)) => users[u].total_xp = LedgerSum(u)

\* the second of two badge checks run in sequence for an unchanged user
SecondCheck(p) ==
  /\ procs[p].op = "CheckBadges"
  /\ procs[p].alone
  /\ procs[p].prior # "none"

AwardsNothing(p) ==
  /\ procs[p].newBadges = {}
  /\ procs[p].txWritten = 0
  /\ \A t \in BadgeTypes : CopiesIn(Award(procs[p].user, t), user_badges) <= 1

\* C5: the second of two badge checks in sequence for an unchanged user
\* returns no new badges, creates no award record and appends no XP
\* transaction, and no badge type is held twice.
C5_SecondCheckAwardsNothing ==
  \A p \in Procs : SecondCheck(p) => AwardsNothing(p)

\* C6: on every reward path, a failed insert of the XP transaction is
\* reported to the caller (the operation ends with an error) and the user's
\* total_xp is not incremented for it.
C6_LedgerFailureSurfaced ==
  \A p \in Procs :
    procs[p].txFailed =>
      /\ ~procs[p].xpAfterFail
      /\ procs[p].pc = "done" => procs[p].result = "500"

\* ------------------------------------------------ redis.GetLeaderboard
Min(a, b) == IF a < b THEN a ELSE b

\* members of a sorted set, highest score first; equal scores in reverse
\* order of the member string
RECURSIVE ZRevOrder(_, _)
ZRevOrder(zs, S) ==
  IF S = {} THEN << >>
  ELSE LET m == CHOOSE x \in S :
                  \A y \in S : zs[y] < zs[x] \/ (zs[y] = zs[x] /\ y <= x)
       IN  << m >> \o ZRevOrder(zs, S \ {m})

\* ZREVRANGE key start stop: negative indexes count from the end
ZRevRange(zs, start, stop) ==
  LET all == ZRevOrder(zs, {u \in DOMAIN zs : zs[u] # NoScore})
      n == Len(all)
      s0 == IF start < 0 THEN n + start ELSE start
      e0 == IF stop < 0 THEN n + stop ELSE stop
      s1 == IF s0 < 0 THEN 0 ELSE s0
      e1 == IF e0 >= n THEN n - 1 ELSE e0
  IN  IF s1 > e1 \/ s1 >= n THEN << >> ELSE SubSeq(all, s1 + 1, e1 + 1)

\* ZRevRangeWithScores(key, 0, limit-1): the members with their scores
RangeWithScores(board, limit) ==
  LET members == ZRevRange(lb_zset[board], 0, limit - 1)
  IN  [i \in 1..Len(members) |->
         [member |-> members[i], score |-> lb_zset[board][members[i]]]]

\* the entry of the i-th member of the range with the metadata read for it;
\* UserID is never filled in
Entry(z, i, data) ==
  [user_id |-> NoUser, name |-> data.name, score |-> z.score, rank |-> i,
   level |-> data.level, badge_count |-> data.badge_count]

\* -------------------------------- generate{Buyer,Seller}LeaderboardFromDB
RoleUsers(role) == {u \in DOMAIN users : users[u].exists /\ users[u].role = role}

BuyerScore == [u \in DOMAIN users |-> users[u].total_spent]

SellerScore == [u \in DOMAIN users |-> users[u].total_sales]

\* ORDER BY <score> DESC: every order of the rows with non-increasing score
\* (rows of equal score come in an order the store does not fix)
RECURSIVE OrderDesc(_, _)
OrderDesc(S, score) ==
  IF S = {} THEN { << >> }
  ELSE LET top == {x \in S : \A y \in S : score[y] <= score[x]}
       IN  UNION { { << m >> \o rest : rest \in OrderDesc(S \ {m}, score) } : m \in top }

\* Limit(n): n rows for n > 0, no LIMIT clause for n < 0; for n = 0 the
\* result depends on the gorm release (LIMIT 0, or no LIMIT clause)
LimitRows(rows, n) ==
  IF n > 0 THEN { SubSeq(rows, 1, Min(n, Len(rows))) }
  ELSE IF n < 0 THEN { rows }
  ELSE { << >>, rows }

DBEntries(rows, score) ==
  [i \in 1..Len(rows) |->
     [user_id |-> rows[i], name |-> rows[i], score |-> score[rows[i]],
      rank |-> i, level |-> users[rows[i]].level, badge_count |-> 0]]

\* the lists generateBuyerLeaderboardFromDB can return; the error of Find
\* is not looked at, so a query that fails (dbErr) gives the empty list
generateBuyerLeaderboardFromDB(limit, dbErr) ==
  IF dbErr THEN { << >> }
  ELSE { DBEntries(rows, BuyerScore) :
           rows \in UNION { LimitRows(o, limit) :
                              o \in OrderDesc(RoleUsers("buyer"), BuyerScore) } }

\* the same for sellers, by total_sales
generateSellerLeaderboardFromDB(limit, dbErr) ==
  IF dbErr THEN { << >> }
  ELSE { DBEntries(rows, SellerScore) :
           rows \in UNION { LimitRows(o, limit) :
                              o \in OrderDesc(RoleUsers("seller"), SellerScore) } }

\* ------------------------- GetBuyerLeaderboard / GetSellerLeaderboard
LimitInputs == {-1, 0, 1, 2, DefaultLimit, MaxLimit, MaxLimit + 1}

ClampLimit(limit) == IF limit > MaxLimit THEN MaxLimit ELSE limit

Reply(type, period, limit, cacheErr, entries) ==
  [type |-> type, period |-> period, status |-> 200, limit |-> limit,
   cache_error |-> cacheErr, entries |-> entries]

\* a leaderboard request up to its first store round trip. cacheErr: the
\* ranked-set read of this request fails and the store answers instead; else
\* the range is held and the metadata of its members is read one by one
StartRead(board, type, period, limit, cacheErr, fromDB) ==
  /\ IF cacheErr
     THEN /\ \E entries \in fromDB :
               lbReply' = Reply(type, period, limit, TRUE, entries)
          /\ UNCHANGED lbRead
     ELSE LET range == RangeWithScores(board, ClampLimit(limit)) IN
          IF range = << >>
          THEN /\ lbReply' = Reply(type, period, limit, FALSE, << >>)
               /\ UNCHANGED lbRead
          ELSE /\ lbRead' = [board |-> board, type |-> type, period |-> period,
                             limit |-> limit, range |-> range, i |-> 1,
                             entries |-> << >>]
               /\ lbReply' = << >>
  /\ UNCHANGED << payVars, authVars, shelfVars, dbVars, cacheVars, procs, faults,
                  lastCheck, xpGranted, xpReply >>

\* dbErr: the store query of the fallback fails as well
GetBuyerLeaderboard(limit, cacheErr, dbErr) ==
  /\ lbRead = << >>
  /\ dbErr => cacheErr
  /\ StartRead("weekly_buyers", "buyers", "weekly", limit, cacheErr,
               generateBuyerLeaderboardFromDB(ClampLimit(limit), dbErr))

GetSellerLeaderboard(limit, cacheErr, dbErr) ==
  /\ lbRead = << >>
  /\ dbErr => cacheErr
  /\ StartRead("monthly_sellers", "sellers", "monthly", limit, cacheErr,
               generateSellerLeaderboardFromDB(ClampLimit(limit), dbErr))

\* redis.GetLeaderboard, one member of the range: HGet of its metadata; a
\* member without metadata or a failed read is passed over; after the last
\* member the handler answers
GL_HGet ==
  /\ lbRead # << >>
  /\ LET r == lbRead
         z == r.range[r.i]
         data == lb_hash[r.board][z.member]
         step(entries) ==
           IF r.i = Len(r.range)
           THEN /\ lbReply' = Reply(r.type, r.period, r.limit, FALSE, entries)
                /\ lbRead' = << >>
           ELSE /\ lbRead' = [r EXCEPT !.i = @ + 1, !.entries = entries]
                /\ UNCHANGED lbReply
     IN
     \/ /\ step(IF data = NoData THEN r.entries
                 ELSE Append(r.entries, Entry(z, r.i, data)))
        /\ UNCHANGED faults
     \/ /\ CanFail
        /\ data # NoData
        /\ faults' = faults + 1
        /\ step(r.entries)
  /\ UNCHANGED << payVars, authVars, shelfVars, dbVars, cacheVars, procs,
                  lastCheck, xpGranted, xpReply >>

\* ------------------------------------------- leaderboard specification
\* a population of n accounts, buyers and sellers alternating, with their
\* scoring fields; accounts 1..m have a leaderboard entry that carries the
\* stored score
PopScore(u) == 100 * (IF (u + 1) \div 2 = 1 THEN 2 ELSE (u + 1) \div 2)

PopOther(u) == 100 * (MaxPop - u)

PopRow(u) ==
  [exists |-> TRUE, role |-> RoleOf(u), level |-> "bronze", total_xp |-> 0,
   total_spent |-> IF RoleOf(u) = "buyer" THEN PopScore(u) ELSE PopOther(u),
   total_sales |-> IF RoleOf(u) = "seller" THEN PopScore(u) ELSE 0]

PopSizes == (0..SmallPop) \cup {MaxPop}

InitLB ==
  \E n \in PopSizes :
    \E m \in {0, n \div 2, n} :
      /\ users = [u \in 1..n |-> PopRow(u)]
      /\ lb_zset = [b \in Boards |->
                      [u \in 1..n |-> IF u <= m /\ BoardOf(RoleOf(u)) = b
                                      THEN PopScore(u) ELSE NoScore]]
      /\ lb_hash = [b \in Boards |->
                      [u \in 1..n |-> IF u <= m /\ BoardOf(RoleOf(u)) = b
                                      THEN [name |-> u, level |-> "bronze", badge_count |-> 0]
                                      ELSE NoData]]
      /\ orders = << >>
      /\ xp_transactions = EmptyBag
      /\ user_badges = EmptyBag
      /\ procs = [p \in Procs |-> IdleProc]
      /\ faults = 0
      /\ lbReply = << >>
      /\ xpReply = << >>
      /\ products = [k \in Products |-> NoProductRow]
      /\ lastCheck = [u \in Users |-> "none"]
      /\ SideIdle
      /\ xpGranted = [u \in Users |-> 0]

\* one leaderboard request per behaviour: a request changes neither the
\* store nor the cache, so a later request meets what the first one met
NextLB ==
  \/ lbReply = << >> /\ \E limit \in LimitInputs, cacheErr, dbErr \in BOOLEAN :
                          GetBuyerLeaderboard(limit, cacheErr, dbErr)
  \/ lbReply = << >> /\ \E limit \in LimitInputs, cacheErr, dbErr \in BOOLEAN :
                          GetSellerLeaderboard(limit, cacheErr, dbErr)
  \/ GL_HGet

SpecLB == InitLB /\ [][NextLB]_vars


\* ------------------------------------------------ leaderboard queries
HasReply == lbReply # << >>

ReplyRole == IF lbReply.type = "buyers" THEN "buyer" ELSE "seller"

ReplyScore == IF lbReply.type = "buyers" THEN BuyerScore ELSE SellerScore

ReplyFromStore ==
  IF lbReply.type = "buyers"
  THEN generateBuyerLeaderboardFromDB(Min(lbReply.limit, MaxLimit), FALSE)
  ELSE generateSellerLeaderboardFromDB(Min(lbReply.limit, MaxLimit), FALSE)

\* C7: for every requested limit a leaderboard query returns at most 50
\* entries, on the cache path and on the store path.
C7_AtMostFifty == HasReply => Len(lbReply.entries) <= MaxLimit

\* the board of the role holds exactly the role's accounts, each with its
\* stored score and its metadata
Synced(role) ==
  \A u \in DOMAIN users :
    IF u \in RoleUsers(role)
    THEN /\ lb_zset[BoardOf(role)][u] =
              (IF role = "buyer" THEN BuyerScore[u] ELSE SellerScore[u])
         /\ lb_hash[BoardOf(role)][u] # NoData
    ELSE lb_zset[BoardOf(role)][u] = NoScore

Ranking(entries) ==
  [i \in 1..Len(entries) |-> [name |-> entries[i].name, rank |-> entries[i].rank]]

\* C8: with the same accounts and scores in the cache and in the store, the
\* cache-backed top-N is the store-derived top-N: the same accounts in the
\* same order with the same ranks, ties included.
C8_CacheMatchesStore ==
  (HasReply /\ ~lbReply.cache_error /\ lbReply.limit >= 1 /\ Synced(ReplyRole)) =>
    \A d \in ReplyFromStore : Ranking(d) = Ranking(lbReply.entries)

\* C9: when the cache read fails the query still answers with success, and
\* the entries are exactly the accounts of the board's role taken from the
\* store: in non-increasing order of the scoring field, no account outside
\* the list scoring higher than a listed one, ranked 1..k, and for a limit
\* n >= 1 there are min(n, 50, number of accounts of the role) of them.
C9_FallbackRanking ==
  (HasReply /\ lbReply.cache_error) =>
    LET e == lbReply.entries
        R == RoleUsers(ReplyRole)
        listed == {e[i].user_id : i \in 1..Len(e)}
    IN  /\ lbReply.status = 200
        /\ \A i \in 1..Len(e) :
             /\ e[i].rank = i
             /\ e[i].user_id \in R
             /\ e[i].score = ReplyScore[e[i].user_id]
        /\ \A i, j \in 1..Len(e) :
             i < j => (e[i].user_id # e[j].user_id /\ e[i].score >= e[j].score)
        /\ \A u \in R \ listed : \A i \in 1..Len(e) : ReplyScore[u] <= e[i].score
        /\ lbReply.limit >= 1 =>
             Len(e) = Min(Min(lbReply.limit, MaxLimit), Cardinality(R))

Cold(role) == \A u \in DOMAIN users : lb_zset[BoardOf(role)][u] = NoScore

\* C10: when the cache is reachable but holds no entry for the board while
\* the store holds accounts of the role, the query returns the
\* store-derived ranking, not an empty list.
C10_ColdCacheFallsBack ==
  (/\ HasReply
   /\ ~lbReply.cache_error
   /\ lbReply.limit >= 1
   /\ Cold(ReplyRole)
   /\ RoleUsers(ReplyRole) # {}) =>
    lbReply.entries \in ReplyFromStore

\* ------------------------------------------------ AddXP specifications
\* XP grants with their leaderboard upserts, and nothing else
NextAddXP ==
  \E p \in Procs :
    \/ \E u \in Users, a \in AddXPAmounts : AddXP(p, u, a)
    \/ AddXP_Insert(p)
    \/ AddXP_Update(p)
    \/ AddXP_Level(p)
    \/ LB_ZAdd(p)
    \/ LB_HSet(p)

\* the same, each request with its upsert run to its end before the next
NextAddXPSeq ==
  \E p \in Procs :
    \/ NoneActive /\ \E u \in Users, a \in AddXPAmounts : AddXP(p, u, a)
    \/ AddXP_Insert(p)
    \/ AddXP_Update(p)
    \/ AddXP_Level(p)
    \/ LB_ZAdd(p)
    \/ LB_HSet(p)

SpecAddXP == Init /\ [][NextAddXPSeq]_vars

\* ---------------------------------- leaderboard reads next to XP grants
\* accounts of either role that have not earned XP yet; the boards are empty
InitBoard ==
  /\ users \in [Users -> {[exists |-> TRUE, role |-> r, level |-> "bronze",
                           total_xp |-> 0, total_spent |-> 0, total_sales |-> 0]
                          : r \in Roles}]
  /\ orders = << >>
  /\ xp_transactions = EmptyBag
  /\ user_badges = EmptyBag
  /\ procs = [p \in Procs |-> IdleProc]
  /\ faults = 0
  /\ lb_zset = [b \in Boards |-> [u \in Users |-> NoScore]]
  /\ lb_hash = [b \in Boards |-> [u \in Users |-> NoData]]
  /\ lbReply = << >>
  /\ xpReply = << >>
  /\ products = [k \in Products |-> NoProductRow]
  /\ lastCheck = [u \in Users |-> "none"]
  /\ SideIdle
  /\ xpGranted = [u \in Users |-> 0]

NextBoard ==
  \/ NextAddXP
  \/ \E cacheErr, dbErr \in BOOLEAN : GetBuyerLeaderboard(DefaultLimit, cacheErr, dbErr)
  \/ \E cacheErr, dbErr \in BOOLEAN : GetSellerLeaderboard(DefaultLimit, cacheErr, dbErr)
  \/ GL_HGet

SpecBoard == InitBoard /\ [][NextBoard]_vars

\* C11: in every list served from the cache the k-th entry has rank k and
\* the scores do not increase along the list, also when the read falls
\* between the ZAdd and the HSet of another account's upsert.
C11_RanksWithoutGaps ==
  (HasReply /\ ~lbReply.cache_error) =>
    LET e == lbReply.entries IN
      /\ \A i \in 1..Len(e) : e[i].rank = i
      /\ \A i, j \in 1..Len(e) : i < j => e[i].score >= e[j].score

StoredScore(u) ==
  IF users[u].role = "buyer" THEN users[u].total_spent ELSE users[u].total_sales

\* C13: when the AddXP requests for an account have returned and every
\* upsert has run without a cache failure, the account's cached entry
\* exists and carries the score and the level stored on the user record.
C13_CachedEntryCurrent ==
  \A u \in Users :
    (/\ NoneActive
     /\ faults = 0
     /\ \E p \in Procs : /\ procs[p].op = "AddXP"
                         /\ procs[p].user = u
                         /\ procs[p].result = "200") =>
      /\ lb_zset[BoardOf(users[u].role)][u] = StoredScore(u)
      /\ lb_hash[BoardOf(users[u].role)][u] # NoData
      /\ lb_hash[BoardOf(users[u].role)][u].level = users[u].level

\* slot p takes a step of SetLeaderboardEntry
UpsertStep(p) ==
  /\ procs[p].pc \in {"lb_zadd", "lb_hset"}
  /\ procs'[p].pc # procs[p].pc

\* C14: no step of the background upsert, failing or not, touches what the
\* AddXP request produced: its response, the ledger, total_xp and level
\* stay as they were when the request returned.
C14_UpsertFrame ==
  [][\A p \in Procs :
       UpsertStep(p) =>
         /\ users' = users
         /\ xp_transactions' = xp_transactions
         /\ procs'[p].result = procs[p].result
         /\ procs'[p].response = procs[p].response]_vars

\* an AddXP request answered with success whose upsert failed at the ZAdd:
\* the ledger row and the response are there, the ranked set has no member
C14_Witness ==
  \E p \in Procs :
    /\ procs[p].op = "AddXP"
    /\ procs[p].pc = "done"
    /\ procs[p].result = "200"
    /\ procs[p].txWritten = 1
    /\ procs[p].response.xp_gained = procs[p].amount
    /\ faults > 0
    /\ lb_zset[BoardOf(users[procs[p].user].role)][procs[p].user] = NoScore
    /\ users[procs[p].user].total_xp = procs[p].response.new_xp

\* C12: once an account's scoring metric has been raised (total_spent by
\* CreateOrder, total_sales by processDeliveredOrder), every request and
\* task has finished and no store or cache statement failed, the account's
\* score on the board of its role is the stored metric.
C12_ScoreFollowsMetric ==
  \A u \in Users :
    (users[u].exists /\ NoneActive /\ faults = 0 /\ StoredScore(u) # 0) =>
      lb_zset[BoardOf(users[u].role)][u] = StoredScore(u)


\* ------------------------------------------- orders and their reward task
\* order requests of every shape, each with its first-order task run to its
\* end before the next request arrives
NextOrder ==
  \E p \in Procs :
    \/ NoneActive /\ \E u \in Users, items \in OrderInputs : CreateOrder(p, u, items)
    \/ CO_Item(p)
    \/ CO_Commit(p)
    \/ FO_Count(p)
    \/ CGS_Insert(p)
    \/ CGS_Update(p)
    \/ B_User(p)
    \/ B_Exist(p)
    \/ B_Rule(p)
    \/ B_Insert(p)

SpecOrder == Init /\ [][NextOrder]_vars

\* slot p takes a step of awardFirstOrderXP
RewardStep(p) ==
  /\ procs[p].op = "FirstOrder"
  /\ procs[p].pc # "done"
  /\ procs'[p].pc # procs[p].pc

\* C15: no step of the first-order reward task, failing or not, changes the
\* committed order: the order rows with their items, every product's stock
\* and every buyer's total_spent stay as CreateOrder committed them.
C15_RewardFrame ==
  [][\A p \in Procs :
       RewardStep(p) =>
         /\ orders' = orders
         /\ products' = products
         /\ \A u \in Users : users'[u].total_spent = users[u].total_spent]_vars

\* a reward task that ended after one of its writes failed; the order it
\* belongs to is stored with its total on the buyer and its stock taken
C15_Witness ==
  \E p \in Procs :
    /\ procs[p].op = "FirstOrder"
    /\ procs[p].pc = "done"
    /\ procs[p].txFailed \/ procs[p].insertFailed
    /\ procs[p].order \in 1..Len(orders)
    /\ orders[procs[p].order].buyer_id = procs[p].user
    /\ users[procs[p].user].total_spent = orders[procs[p].order].total_amount
    /\ users[procs[p].user].total_spent > 0
    /\ \E k \in Products : products[k].exists /\ products[k].stock < ProductRow(k).stock

\* slot p takes a step of CreateOrder
OrderStep(p) ==
  \/ procs[p].pc = "idle" /\ procs'[p].op = "CreateOrder"
  \/ /\ procs[p].op = "CreateOrder"
     /\ procs[p].pc \in {"co_item", "co_commit"}
     /\ procs'[p].pc # procs[p].pc \/ procs'[p].idx # procs[p].idx

\* the units of product k a request asks for
RECURSIVE RequestedQty(_, _)
RequestedQty(items, k) ==
  IF items = << >> THEN 0
  ELSE (IF Head(items).product_id = k THEN Head(items).quantity ELSE 0)
       + RequestedQty(Tail(items), k)

\* the price of a request at the catalogue's prices
RECURSIVE RequestTotal(_)
RequestTotal(items) ==
  IF items = << >> THEN 0
  ELSE products[Head(items).product_id].price * Head(items).quantity
       + RequestTotal(Tail(items))

\* the step stores the whole order of request r
AppliesAll(r) ==
  /\ Len(orders') = Len(orders) + 1
  /\ SubSeq(orders', 1, Len(orders)) = orders
  /\ LET o == orders'[Len(orders')] IN
       /\ o.buyer_id = r.user
       /\ o.total_amount = RequestTotal(r.items)
       /\ Len(o.items) = Len(r.items)
       /\ \A i \in 1..Len(r.items) :
            /\ o.items[i].product_id = r.items[i].product_id
            /\ o.items[i].quantity = r.items[i].quantity
            /\ o.items[i].price = products[r.items[i].product_id].price
  /\ \A k \in Products :
       products'[k] = [products[k] EXCEPT !.stock = @ - RequestedQty(r.items, k)]
  /\ users' = [users EXCEPT ![r.user].total_spent = @ + RequestTotal(r.items)]

\* C16: every step of a CreateOrder request either is its commit, which
\* stores the order row, all its items, the stock of every ordered product
\* and the buyer's total_spent together, or leaves the products, the orders
\* with their items and the users as they were; a request that ends in an
\* error has therefore changed none of them.
C16_AllOrNothing ==
  [][\A p \in Procs :
       OrderStep(p) =>
         IF procs'[p].result = "201"
         THEN AppliesAll(procs[p])
         ELSE /\ products' = products
              /\ orders' = orders
              /\ users' = users]_vars

\* a request refused at its second item after the first item's stock update
\* ran inside the transaction: nothing of it is stored
C16_Witness ==
  \E p \in Procs :
    /\ procs[p].op = "CreateOrder"
    /\ procs[p].pc = "done"
    /\ procs[p].result = "400"
    /\ procs[p].idx = 2
    /\ Len(procs[p].items) = 2
    /\ products[procs[p].items[1].product_id].exists
    /\ products = Catalogue
    /\ orders = << >>


\* ------------------------------------------------- level arithmetic
\* calculateXPToNextLevel with the comparisons shifted by one
calculateXPToNextLevelOff(currentXP, currentLevel) ==
  CASE currentLevel = "bronze" -> SilverXP - 1 - currentXP
    [] currentLevel = "silver" -> GoldXP - 1 - currentXP
    [] currentLevel = "gold" -> PlatinumXP - 1 - currentXP
    [] OTHER -> 0

\* GamificationHandler.calculateXPToNextLevel: a switch on the level passed
\* in, without a look at whether currentXP lies inside that level
calculateXPToNextLevel(currentXP, currentLevel) ==
  CASE currentLevel = "bronze" -> SilverXP - currentXP
    [] currentLevel = "silver" -> GoldXP - currentXP
    [] currentLevel = "gold" -> PlatinumXP - currentXP
    [] currentLevel = "platinum" -> 0
    [] OTHER -> 0

\* a percentage as the exact quotient num / den * 100 is kept as the pair
\* (num * 100, den); the float64 division and product of the handler round
\* monotonically, so comparisons with 0 and 100 agree with the exact value
Percent(num, den) == [num |-> num * 100, den |-> den]

\* GamificationHandler.calculateLevelProgress: linear in currentXP between
\* the bounds of the level passed in, not clamped
calculateLevelProgress(currentXP, currentLevel) ==
  CASE currentLevel = "bronze" -> Percent(currentXP, SilverXP)
    [] currentLevel = "silver" -> Percent(currentXP - SilverXP, GoldXP - SilverXP)
    [] currentLevel = "gold" -> Percent(currentXP - GoldXP, PlatinumXP - GoldXP)
    [] currentLevel = "platinum" -> Percent(1, 1)
    [] OTHER -> Percent(0, 1)

\* GamificationHandler.getLevelInfo: the XP range of a level; platinum has
\* no upper end
getLevelInfo(level) ==
  CASE level = "bronze" -> [name |-> level, min_xp |-> 0, max_xp |-> SilverXP - 1]
    [] level = "silver" -> [name |-> level, min_xp |-> SilverXP, max_xp |-> GoldXP - 1]
    [] level = "gold" -> [name |-> level, min_xp |-> GoldXP, max_xp |-> PlatinumXP - 1]
    [] level = "platinum" -> [name |-> level, min_xp |-> PlatinumXP]
    [] OTHER -> [name |-> level]

\* GET /gamify/xp/:userId
GetUserXP(u) ==
  /\ xpReply' =
       IF ~users[u].exists
       THEN [handler |-> "GetUserXP", status |-> "404", user_id |-> u]
       ELSE [handler |-> "GetUserXP", status |-> "200", user_id |-> u,
             total_xp |-> users[u].total_xp,
             level |-> users[u].level,
             xp_to_next_level |->
               calculateXPToNextLevel(users[u].total_xp, users[u].level),
             level_progress |->
               calculateLevelProgress(users[u].total_xp, users[u].level)]
  /\ UNCHANGED << sideVars, dbVars, cacheVars, procs, faults, lbReply, lastCheck, xpGranted >>

\* GET /gamify/level/:userId
GetUserLevel(u) ==
  /\ xpReply' =
       IF ~users[u].exists
       THEN [handler |-> "GetUserLevel", status |-> "404", user_id |-> u]
       ELSE [handler |-> "GetUserLevel", status |-> "200", user_id |-> u,
             level |-> users[u].level,
             total_xp |-> users[u].total_xp,
             xp_to_next_level |->
               calculateXPToNextLevel(users[u].total_xp, users[u].level),
             level_progress |->
               calculateLevelProgress(users[u].total_xp, users[u].level),
             level_info |-> getLevelInfo(users[u].level)]
  /\ UNCHANGED << sideVars, dbVars, cacheVars, procs, faults, lbReply, lastCheck, xpGranted >>

\* XP balances around every threshold, below zero and far above the last
XPInputs ==
  {-30, 0, 1, SilverXP - 1, SilverXP, SilverXP + 1, GoldXP - 1, GoldXP, GoldXP + 1,
   PlatinumXP - 1, PlatinumXP, PlatinumXP + 1, 2 * PlatinumXP}

\* accounts with any of these balances; the stored level is the resolved
\* one, or still bronze where rewards raised total_xp without resolving it
InitLevel ==
  /\ users \in [Users -> {[exists |-> TRUE, role |-> r, level |-> l,
                           total_xp |-> b, total_spent |-> 0, total_sales |-> 0]
                          : r \in Roles, l \in Levels, b \in XPInputs}]
  /\ \A u \in Users : /\ users[u].role = RoleOf(u)
                      /\ users[u].level \in {"bronze", calculateLevel(users[u].total_xp)}
  /\ orders = << >>
  /\ xp_transactions =
       SetToBag({Tx(u, users[u].total_xp, "Seed", 0) :
                   u \in {v \in Users : users[v].total_xp # 0}})
  /\ user_badges = EmptyBag
  /\ procs = [p \in Procs |-> IdleProc]
  /\ faults = 0
  /\ lb_zset = [b \in Boards |-> [u \in Users |-> NoScore]]
  /\ lb_hash = [b \in Boards |-> [u \in Users |-> NoData]]
  /\ lbReply = << >>
  /\ xpReply = << >>
  /\ products = Catalogue
  /\ lastCheck = [u \in Users |-> "none"]
  /\ SideIdle
  /\ xpGranted = [u \in Users |-> 0]

\* level resolution and the two level queries, one request at a time
NextLevel ==
  \/ \E p \in Procs : NoneActive /\ \E u \in Users : UpdateUserLevel(p, u)
  \/ \E p \in Procs : UL_Update(p)
  \/ \E u \in Users : GetUserXP(u)
  \/ \E u \in Users : GetUserLevel(u)

SpecLevel == InitLevel /\ [][NextLevel]_vars

\* orders with their rewards, XP grants and the two level queries, one
\* request at a time
NextXP ==
  \/ NextOrder
  \/ NextAddXPSeq
  \/ NoneActive /\ \E u \in Users : GetUserXP(u)
  \/ NoneActive /\ \E u \in Users : GetUserLevel(u)

SpecXP == Init /\ [][NextXP]_vars

\* the tier of a balance as the thresholds are written down: inclusive
\* lower bounds 500, 1500 and 5000
Tier(xp) ==
  IF xp < 500 THEN "bronze"
  ELSE IF xp < 1500 THEN "silver"
  ELSE IF xp < 5000 THEN "gold"
  ELSE "platinum"

HasXPReply == xpReply # << >> /\ xpReply.status = "200"

\* C17: for every balance both copies of calculateLevel return the tier of
\* the thresholds 500 / 1500 / 5000 with inclusive lower bounds, they agree
\* with each other, and a level that UpdateUserLevel has resolved is that tier.
C17_Thresholds ==
  /\ \A u \in Users :
       /\ calculateLevel(users[u].total_xp) = Tier(users[u].total_xp)
       /\ authCalculateLevel(users[u].total_xp) = Tier(users[u].total_xp)
       /\ authCalculateLevel(users[u].total_xp) = calculateLevel(users[u].total_xp)
  /\ \A p \in Procs :
       (procs[p].op = "UpdateLevel" /\ procs[p].pc = "done" /\ procs[p].result = "200") =>
         /\ procs[p].response.new_level = Tier(procs[p].response.total_xp)
         /\ users[procs[p].user].level = Tier(users[procs[p].user].total_xp)

\* an account with exactly 500 XP whose level UpdateUserLevel resolved to silver
C17_Witness ==
  \E p \in Procs :
    /\ procs[p].op = "UpdateLevel"
    /\ procs[p].pc = "done"
    /\ procs[p].result = "200"
    /\ procs[p].response.leveled_up
    /\ procs[p].response.old_level = "bronze"
    /\ users[procs[p].user].total_xp = SilverXP
    /\ users[procs[p].user].level = "silver"

LevelRank(l) ==
  CASE l = "bronze" -> 1 [] l = "silver" -> 2 [] l = "gold" -> 3 [] l = "platinum" -> 4

\* C18: for non-negative balances x <= y the level of x is not above the
\* level of y, and the XP to the next level of a balance at its resolved
\* level, as computed and as GetUserXP / GetUserLevel report it, is 0
\* exactly when that level is platinum.
C18_MonotoneAndZeroAtTop ==
  /\ \A u, v \in Users :
       (0 <= users[u].total_xp /\ users[u].total_xp <= users[v].total_xp) =>
         LevelRank(calculateLevel(users[u].total_xp))
           <= LevelRank(calculateLevel(users[v].total_xp))
  /\ \A u \in Users :
       users[u].total_xp >= 0 =>
         ((calculateXPToNextLevel(users[u].total_xp, calculateLevel(users[u].total_xp)) = 0)
            <=> (calculateLevel(users[u].total_xp) = "platinum"))
  /\ (/\ HasXPReply
      /\ xpReply.total_xp >= 0
      /\ xpReply.level = calculateLevel(xpReply.total_xp)) =>
       ((xpReply.xp_to_next_level = 0) <=> (xpReply.level = "platinum"))

\* a query answered for a platinum account at its resolved level, next to
\* an account one XP short of platinum
C18_Witness ==
  /\ HasXPReply
  /\ xpReply.total_xp = PlatinumXP
  /\ xpReply.level = "platinum"
  /\ xpReply.xp_to_next_level = 0
  /\ \E v \in Users : users[v].total_xp = PlatinumXP - 1

\* the query was answered with no request or task in progress and after no
\* failed statement
AtRest == NoneActive /\ faults = 0

\* C19: the xp_to_next_level that GetUserXP and GetUserLevel report from
\* the stored total_xp and the stored level is never negative (stated for
\* queries answered at rest).
C19_GapNonNegative ==
  (HasXPReply /\ AtRest) => xpReply.xp_to_next_level >= 0

\* C20: the level_progress that GetUserXP and GetUserLevel report from the
\* stored total_xp and the stored level lies in 0..100 and is 100 for a
\* platinum account (stated for queries answered at rest).
C20_ProgressInRange ==
  (HasXPReply /\ AtRest) =>
    /\ 0 <= xpReply.level_progress.num
    /\ xpReply.level_progress.num <= 100 * xpReply.level_progress.den
    /\ xpReply.level = "platinum" =>
         xpReply.level_progress.num = 100 * xpReply.level_progress.den


\* ------------------------------------------------ the result of AddXP
\* amounts of the level-up scenario next to the other request amounts
GrantAmounts == AddXPAmounts \cup {20}

\* AddXP requests with these amounts, each with its upsert run to its end
\* before the next
NextGrant ==
  \E p \in Procs :
    \/ NoneActive /\ \E u \in Users, a \in GrantAmounts : AddXP(p, u, a)
    \/ AddXP_Insert(p)
    \/ AddXP_Update(p)
    \/ AddXP_Level(p)
    \/ LB_ZAdd(p)
    \/ LB_HSet(p)

SpecGrant == Init /\ [][NextGrant]_vars

\* slot p answers its AddXP request
AnswerStep(p) ==
  /\ procs[p].op = "AddXP"
  /\ procs[p].pc = "level"
  /\ procs'[p].pc # "level"

\* C21: an AddXP request with amount a for a user whose stored balance was
\* b (so that b + a is stored when the answer is built) answers old_xp = b,
\* new_xp = b + a, xp_gained = a, old_level and new_level the tiers of b and
\* b + a, leveled_up exactly when the tiers differ, and when leveled_up is
\* true the stored level is new_level once the request has answered.
C21_AddXPResult ==
  [][\A p \in Procs :
       AnswerStep(p) =>
         LET u == procs[p].user
             a == procs[p].amount
             b == users[u].total_xp - a
             resp == procs'[p].response
         IN
         /\ procs'[p].result = "200"
         /\ resp.old_xp = b
         /\ resp.new_xp = b + a
         /\ resp.xp_gained = a
         /\ resp.old_level = Tier(b)
         /\ resp.new_level = Tier(b + a)
         /\ resp.leveled_up <=> (Tier(b) # Tier(b + a))
         /\ resp.leveled_up => users'[u].level = resp.new_level]_vars


\* --------------------------------------- orders placed side by side
\* order requests and their first-order tasks in any interleaving
NextShop ==
  \E p \in Procs :
    \/ \E u \in Users, items \in SingleItemOrders : CreateOrder(p, u, items)
    \/ CO_Item(p)
    \/ CO_Commit(p)
    \/ FO_Count(p)
    \/ CGS_Insert(p)
    \/ CGS_Update(p)
    \/ B_User(p)
    \/ B_Exist(p)
    \/ B_Rule(p)
    \/ B_Insert(p)

SpecShop == InitSeq /\ [][NextShop]_vars

\* C22: for a user who started at 0 XP and has placed orders, once every
\* order request and reward task has finished (none of their statements
\* having failed) the ledger holds exactly one 50-XP "First Order"
\* transaction, exactly one first_order award and exactly one 50-XP
\* transaction for that badge, and the stored balance is 100.
C22_OneFirstOrderReward ==
  \A u \in Users :
    (NoneActive /\ faults = 0 /\ OrderCount(u) >= 1) =>
      /\ CopiesIn(Tx(u, FirstOrderXP, "First Order", 0), xp_transactions) = 1
      /\ CopiesIn(Award(u, "first_order"), user_badges) = 1
      /\ CopiesIn(Tx(u, BadgeOf("first_order").xp_reward, BadgeReason("first_order"), 0),
                  xp_transactions) = 1
      /\ users[u].total_xp = 100


\* C23: when no request or task is in progress and no transaction insert
\* has failed, every user has for every badge type with a positive XP
\* reward as many "Badge: <name>" transactions of that amount (with empty
\* reference) as stored awards of that type: one per stored award, and none
\* for an award whose insert failed.
C23_BadgeXPMatchesAwards ==
  (NoneActive /\ \A p \in Procs : ~procs[p].txFailed) =>
    \A u \in Users, t \in BadgeTypes :
      BadgeOf(t).xp_reward > 0 =>
        CopiesIn(Tx(u, BadgeOf(t).xp_reward, BadgeReason(t), 0), xp_transactions)
          = CopiesIn(Award(u, t), user_badges)


\* ------------------------------------- signups around the 100th account
\* accounts that signed up earlier, next to the accounts 1..NumUsers that
\* sign up now: as many as leave room for all, one or none of the new ones
\* among the first EarlyBirdUsers
CrowdSizes == {EarlyBirdUsers - NumUsers, EarlyBirdUsers - 1, EarlyBirdUsers}

Crowd(n) == (NumUsers + 1)..(NumUsers + n)

\* the earlier accounts hold early_bird and its XP
InitEarly ==
  \E n \in CrowdSizes :
    /\ users = [u \in Users \cup Crowd(n) |->
                  IF u \in Users THEN NoRow
                  ELSE [exists |-> TRUE, role |-> "buyer", level |-> "bronze",
                        total_xp |-> BadgeOf("early_bird").xp_reward,
                        total_spent |-> 0, total_sales |-> 0]]
    /\ user_badges = SetToBag({Award(u, "early_bird") : u \in Crowd(n)})
    /\ xp_transactions =
         SetToBag({Tx(u, BadgeOf("early_bird").xp_reward, "Early Bird Badge", 0) :
                     u \in Crowd(n)})
    /\ orders = << >>
    /\ procs = [p \in Procs |-> IdleProc]
    /\ faults = 0
    /\ lb_zset = [b \in Boards |-> [u \in Users |-> NoScore]]
    /\ lb_hash = [b \in Boards |-> [u \in Users |-> NoData]]
    /\ lbReply = << >>
    /\ xpReply = << >>
    /\ products = [k \in Products |-> NoProductRow]
    /\ lastCheck = [u \in Users |-> "none"]
    /\ SideIdle
    /\ xpGranted = [u \in Users |-> 0]

\* signups with their early_bird task, badge checks and XP grants of the
\* new accounts, in any interleaving
NextEarly ==
  \/ \E p \in Procs :
       \/ \E u \in Users, role \in Roles : Signup(p, u, role)
       \/ SU_Create(p)
       \/ SU_Session(p)
       \/ EB_Count(p)
       \/ EB_Exist(p)
       \/ EB_Insert(p)
       \/ AX_Insert(p)
       \/ AX_Update(p)
       \/ AX_Read(p)
       \/ AX_Level(p)
       \/ \E u \in Users : CheckAndAwardBadges(p, u)
       \/ CB_Existing(p)
       \/ CB_Rule(p)
       \/ CB_Insert(p)
       \/ CB_XPInsert(p)
       \/ CB_XPUpdate(p)
  \/ NextAddXP

SpecEarly == InitEarly /\ [][NextEarly]_vars

EarlyBirdHolders ==
  {u \in DOMAIN users : CopiesIn(Award(u, "early_bird"), user_badges) > 0}

\* slot p decides the early_bird rule in favour of an award
EarlyBirdPasses(p) ==
  \/ procs[p].pc = "eb_count" /\ procs'[p].pc = "eb_exist"
  \/ /\ procs[p].pc = "cb_rule"
     /\ BadgeCatalog[procs[p].idx].type = "early_bird"
     /\ procs'[p].pc = "cb_insert"

\* slot p is at the award insert that follows a rule decided in favour
EarlyBirdInserts(p) ==
  /\ procs'[p].pc # procs[p].pc
  /\ \/ procs[p].pc = "eb_insert"
     \/ procs[p].pc = "cb_insert" /\ BadgeCatalog[procs[p].idx].type = "early_bird"

\* C24: the early_bird rule is decided in favour of an award only while at
\* most 100 accounts exist, an early_bird award is stored only after such a
\* decision, and at most 100 distinct users hold early_bird, whatever the
\* interleaving of signups and badge evaluations.
C24_EarlyBirdFirstHundred ==
  /\ [](Cardinality(EarlyBirdHolders) <= EarlyBirdUsers)
  /\ [][/\ \A p \in Procs : EarlyBirdPasses(p) => UserCount <= EarlyBirdUsers
        /\ \A u \in DOMAIN users :
             CopiesIn(Award(u, "early_bird"), user_badges')
               > CopiesIn(Award(u, "early_bird"), user_badges) =>
               \E p \in Procs : EarlyBirdInserts(p) /\ procs[p].user = u]_vars


\* ------------------------------------------- a seller's tenth sale
\* buyer 1 has placed n orders of m units of product 1 each, as m items;
\* seller 2 has delivered all but the last one, with every reward granted;
\* the pairs (n, m) keep the delivered items below TopSellerSales
InitSales ==
  \E n \in {TopSellerSales \div 2 - 1, TopSellerSales \div 2, TopSellerSales}, m \in 1..2 :
    LET d == n - 1
        item == [product_id |-> 1, quantity |-> 1, price |-> ProductRow(1).price]
        total == m * ProductRow(1).price
    IN
    /\ d * m < TopSellerSales
    /\ orders = [i \in 1..n |->
                   [buyer_id |-> 1, items |-> [j \in 1..m |-> item],
                    total_amount |-> total,
                    status |-> IF i <= d THEN "delivered" ELSE "pending"]]
    /\ users = [u \in Users |->
                  IF u = 1
                  THEN [exists |-> TRUE, role |-> "buyer", level |-> "bronze",
                        total_xp |-> FirstOrderXP + BadgeOf("first_order").xp_reward
                                       + d * BuyerXP(total),
                        total_spent |-> n * total, total_sales |-> 0]
                  ELSE IF u = 2
                  THEN [exists |-> TRUE, role |-> "seller", level |-> "bronze",
                        total_xp |-> d * m * SellerXP(ProductRow(1).price),
                        total_spent |-> 0, total_sales |-> d * total]
                  ELSE NoRow]
    /\ products = [k \in Products |-> ProductRow(k)]
    /\ user_badges = SetToBag({Award(1, "first_order")})
    /\ xp_transactions =
         SetToBag({Tx(1, FirstOrderXP, "First Order", 0),
                   Tx(1, BadgeOf("first_order").xp_reward, BadgeReason("first_order"), 0)})
         (+) SetToBag({Tx(1, BuyerXP(total), "Order Completed", i) : i \in 1..d})
         (+) [t \in {Tx(2, SellerXP(ProductRow(1).price), "Product Sale", i) : i \in 1..d}
                |-> m]
    /\ procs = [p \in Procs |-> IdleProc]
    /\ faults = 0
    /\ lb_zset = [b \in Boards |-> [u \in Users |-> NoScore]]
    /\ lb_hash = [b \in Boards |-> [u \in Users |-> NoData]]
    /\ lbReply = << >>
    /\ xpReply = << >>
    /\ lastCheck = [u \in Users |-> "none"]
    /\ SideIdle
    /\ xpGranted = [u \in Users |-> 0]

\* status updates by the seller with the delivered-order task, one at a time
NextSales ==
  \E p \in Procs :
    \/ NoneActive /\ \E s \in Users, i \in 1..Len(orders), st \in StatusInputs :
                       UpdateOrderStatus(p, s, i, st)
    \/ UO_Save(p)
    \/ UO_Reload(p)
    \/ D_Sales(p)
    \/ D_Buyer(p)
    \/ D_Top(p)
    \/ CGS_Insert(p)
    \/ CGS_Update(p)
    \/ B_User(p)
    \/ B_Exist(p)
    \/ B_Rule(p)
    \/ B_Insert(p)

SpecSales == InitSales /\ [][NextSales]_vars

\* the delivered orders that contain a product of seller u, each counted once
DeliveredOrdersOf(u) ==
  Cardinality({i \in 1..Len(orders) :
                 orders[i].status = "delivered" /\ u \in OrderSellers(orders[i])})

\* C25: a top_seller award is stored for a seller only while at least 10
\* distinct delivered orders contain products of that seller, an order
\* counting once however many of its items are the seller's.
C25_TopSellerTenOrders ==
  [][\A u \in Users :
       CopiesIn(Award(u, "top_seller"), user_badges')
         > CopiesIn(Award(u, "top_seller"), user_badges) =>
         DeliveredOrdersOf(u) >= TopSellerSales]_vars


\* ------------------------------------------------------------------- C26
\* the award of type t for user u is stored by this step
AwardStored(u, t) ==
  CopiesIn(Award(u, t), user_badges') > CopiesIn(Award(u, t), user_badges)

\* a request that has passed the rule switch for type t of user u and stands
\* at the insert of the award, with the spend it loaded for the evaluation
AtAwardInsert(p, u, t) ==
  /\ procs[p].user = u
  /\ \/ procs[p].pc = "b_insert" /\ procs[p].badge = t
     \/ procs[p].pc = "cb_insert" /\ BadgeCatalog[procs[p].idx].type = t

\* the rule switch of request p lets the current type through in this step
RulePasses(p, t) ==
  \/ /\ procs[p].pc = "b_rule" /\ procs'[p].pc = "b_insert"
     /\ procs[p].badge = t
  \/ /\ procs[p].pc = "cb_rule" /\ procs'[p].pc = "cb_insert"
     /\ BadgeCatalog[procs[p].idx].type = t

\* ------------------------------------------ spending and the profile
MaxRace == 3

\* buyer 1 and seller 2 with the catalogue, nothing ordered yet, and room
\* for three requests at a time
InitSpend ==
  /\ users = [u \in Users |->
                [exists |-> TRUE, role |-> RoleOf(u), level |-> "bronze",
                 total_xp |-> 0, total_spent |-> 0, total_sales |-> 0]]
  /\ orders = << >>
  /\ xp_transactions = EmptyBag
  /\ user_badges = EmptyBag
  /\ procs = [p \in 1..MaxRace |-> IdleProc]
  /\ faults = 0
  /\ lb_zset = [b \in Boards |-> [u \in Users |-> NoScore]]
  /\ lb_hash = [b \in Boards |-> [u \in Users |-> NoData]]
  /\ lbReply = << >>
  /\ xpReply = << >>
  /\ products = Catalogue
  /\ lastCheck = [u \in Users |-> "none"]
  /\ SideIdle
  /\ xpGranted = [u \in Users |-> 0]

\* buyer 1 orders product 2, edits the profile and has the badges checked,
\* in any interleaving
NextSpend ==
  \E p \in 1..MaxRace :
    \/ CreateOrder(p, 1, << Item(2, 1) >>)
    \/ CO_Item(p)
    \/ CO_Commit(p)
    \/ FO_Count(p)
    \/ CGS_Insert(p)
    \/ CGS_Update(p)
    \/ B_User(p)
    \/ B_Exist(p)
    \/ B_Rule(p)
    \/ B_Insert(p)
    \/ CheckAndAwardBadges(p, 1)
    \/ CB_Existing(p)
    \/ CB_Rule(p)
    \/ CB_Insert(p)
    \/ CB_XPInsert(p)
    \/ CB_XPUpdate(p)
    \/ UpdateUserProfile(p, 1, 1)
    \/ UU_Save(p)

SpecSpend == InitSpend /\ [][NextSpend]_vars

\* C26: every first_order award is stored for a user who has placed at least
\* one order and every big_spender award for a user whose stored total_spent
\* is at least 5000, by a request that loaded such a spend; the rule switch
\* lets neither type through to the insert when its rule is false at the
\* evaluation.
C26_RuleTrueWhenAwarded ==
  [][\A u \in Users :
       /\ AwardStored(u, "first_order") =>
            /\ OrderCount(u) >= 1
            /\ \E p \in DOMAIN procs : AtAwardInsert(p, u, "first_order")
       /\ AwardStored(u, "big_spender") =>
            /\ users[u].total_spent >= BigSpenderSpend
            /\ \E p \in DOMAIN procs : /\ AtAwardInsert(p, u, "big_spender")
                                       /\ procs[p].spent >= BigSpenderSpend
       /\ \A p \in DOMAIN procs :
            /\ RulePasses(p, "first_order") =>
                 OrderCount(procs[p].user) >= 1
            /\ RulePasses(p, "big_spender") =>
                 procs[p].spent >= BigSpenderSpend]_vars


\* ------------------------------------------------------------------- C27
\* C27: no user ever holds a reviewer or a referrer award, and no rule
\* switch lets either type through to the insert of an award.
C27_NoReviewerNoReferrer ==
  /\ [](\A u \in Users, t \in {"reviewer", "referrer"} :
          CopiesIn(Award(u, t), user_badges) = 0)
  /\ [][\A p \in Procs, t \in {"reviewer", "referrer"} : ~RulePasses(p, t)]_vars

\* a badge check that went through the whole catalog for a user with an
\* order has responded: it stored other awards, and neither placeholder
C27_Witness ==
  \E p \in Procs :
    /\ procs[p].op = "CheckBadges" /\ procs[p].pc = "done"
    /\ procs[p].result = "200"
    /\ "first_order" \in procs[p].newBadges
    /\ \A t \in {"reviewer", "referrer"} :
         /\ \E i \in 1..Len(BadgeCatalog) : BadgeCatalog[i].type = t
         /\ CopiesIn(Award(procs[p].user, t), user_badges) = 0


\* ------------------------------------------------------------------- C28
\* the buyer's reward for a delivered order at 10 XP per 100 currency units
TenPerHundred(totalAmount) == (totalAmount * 10) \div 100

\* C28: an "Order Completed" transaction written for a delivered order is the
\* buyer's, with amount 10 XP per 100 currency units of the order's total
\* (integer part), and processDeliveredOrder writes none when that amount
\* is 0.
C28_OrderCompletedTenPerHundred ==
  [][\A p \in Procs :
       /\ ( /\ procs[p].pc = "cgs_insert"
            /\ procs[p].reason = "Order Completed"
            /\ CopiesIn(Tx(procs[p].user, procs[p].amount, "Order Completed",
                           procs[p].reference), xp_transactions')
                 > CopiesIn(Tx(procs[p].user, procs[p].amount, "Order Completed",
                               procs[p].reference), xp_transactions) )
          => /\ procs[p].user = orders[procs[p].reference].buyer_id
             /\ procs[p].amount = TenPerHundred(orders[procs[p].reference].total_amount)
       /\ ( /\ At(p, "Delivered", "d_buyer")
            /\ TenPerHundred(orders[procs[p].order].total_amount) = 0 )
          => procs'[p].pc # "cgs_insert"]_vars


\* ------------------------------------------------------------------- C29
\* C29: every stored account's total_xp is non-negative, whatever AddXP
\* requests with non-zero amounts and other rewards have been applied.
C29_TotalXPNonNegative ==
  \A u \in Users : users[u].exists => users[u].total_xp >= 0


\* ------------------------------------------------------------------- C30
\* C30: every XP transaction of the ledger is in the ledger after every step,
\* with the same user, amount, reason and reference and with at least the
\* number of rows it had: no step updates or deletes a transaction.
C30_LedgerAppendOnly ==
  [][\A t \in BagToSet(xp_transactions) :
       CopiesIn(t, xp_transactions') >= CopiesIn(t, xp_transactions)]_vars

\* a request wrote its transaction and has ended; a later request, which
\* found that transaction in the ledger, has written its own and ended too
C30_Witness ==
  \E p, q \in Procs :
    /\ p < q
    /\ procs[p].pc = "done" /\ procs[p].txWritten >= 1
    /\ procs[q].pc = "done" /\ procs[q].txWritten >= 1
    /\ BagCardinality(xp_transactions) >= 2
    /\ \E t \in BagToSet(xp_transactions) : t.user_id = procs[p].user
    /\ \E t \in BagToSet(xp_transactions) : t.user_id = procs[q].user


\* ------------------------------------------------------------------- C34
\* the units of product k in the items of one order
RECURSIVE UnitsIn(_, _)
UnitsIn(items, k) ==
  IF items = << >> THEN 0
  ELSE (IF Head(items).product_id = k THEN Head(items).quantity ELSE 0)
       + UnitsIn(Tail(items), k)

\* the units of product k in the committed orders os
RECURSIVE UnitsOrdered(_, _)
UnitsOrdered(os, k) ==
  IF os = << >> THEN 0
  ELSE UnitsIn(Head(os).items, k) + UnitsOrdered(Tail(os), k)

\* no CreateOrder request is between its begin and its commit or rollback
NoOrderOpen ==
  \A p \in Procs : ~(procs[p].op = "CreateOrder" /\ Active(p))

\* C34: a product's stock is never negative, and once every CreateOrder
\* request has committed or rolled back it is the initial stock minus the
\* units of the product in all committed orders.
C34_StockMatchesOrders ==
  \A k \in Products :
    /\ products[k].stock >= 0
    /\ NoOrderOpen =>
         products[k].stock = Catalogue[k].stock - UnitsOrdered(orders, k)


\* ------------------------------------------------------------------- C35
\* the ledger rows with this reason that refer to order i
RECURSIVE RowsFor(_, _, _)
RowsFor(S, reason, i) ==
  IF S = {} THEN 0
  ELSE LET t == CHOOSE x \in S : TRUE
       IN  (IF t.reason = reason /\ t.reference = i
            THEN CopiesIn(t, xp_transactions) ELSE 0)
           + RowsFor(S \ {t}, reason, i)

\* what the items sold by seller s add up to, in one order and in all orders
RECURSIVE SalesIn(_, _)
SalesIn(items, s) ==
  IF items = << >> THEN 0
  ELSE (IF products[Head(items).product_id].seller_id = s
        THEN Head(items).price * Head(items).quantity ELSE 0)
       + SalesIn(Tail(items), s)

RECURSIVE SalesOf(_, _)
SalesOf(os, s) ==
  IF os = << >> THEN 0
  ELSE SalesIn(Head(os).items, s) + SalesOf(Tail(os), s)

\* C35: the delivery rewards of an order are applied at most once: the
\* ledger holds at most one "Order Completed" row and at most one
\* "Product Sale" row per item for it, and a seller's total_sales never
\* exceeds what every order counted once adds up to.
C35_DeliveryRewardsOnce ==
  /\ \A i \in 1..Len(orders) :
       /\ RowsFor(BagToSet(xp_transactions), "Order Completed", i) <= 1
       /\ RowsFor(BagToSet(xp_transactions), "Product Sale", i) <= Len(orders[i].items)
  /\ \A s \in Users : users[s].total_sales <= SalesOf(orders, s)


\* ======================================================== PaymentHandler
MaxPayments == 2

Methods == {"telebirr", "cbe_birr", "cash"}

\* the methods a request may name: the valid ones and one that is not
MethodInputs == Methods \cup {"card"}

Mobile(m) == m \in {"telebirr", "cbe_birr"}

\* a payments row; task tells whether its delayed completion task still
\* sleeps, aged whether it was created more than 15 minutes ago
Payment(i, st, task) ==
  [order_id |-> i, status |-> st, task |-> task, aged |-> FALSE]

\* what the payment handlers leave alone
payFrame == << users, xp_transactions, user_badges, products, cacheVars,
               lbReply, xpReply, xpGranted, authVars, shelfVars, readVars >>

\* InitiatePayment up to the order checks: the method, the phone of a mobile
\* payment, the order (any error of its read answers 404), its buyer and
\* its status
InitiatePayment(p, u, i, m, phone) ==
  /\ users[u].exists
  /\ LET end(code) == [IdleProc EXCEPT !.op = "InitiatePayment", !.pc = "done",
                                       !.user = u, !.order = i, !.result = code]
     IN
     \/ /\ Start(p, IF m \notin Methods THEN end("400")
                    ELSE IF Mobile(m) /\ ~phone THEN end("400")
                    ELSE IF i \notin 1..Len(orders) THEN end("404")
                    ELSE IF orders[i].buyer_id # u THEN end("403")
                    ELSE IF orders[i].status # "pending" THEN end("400")
                    ELSE [IdleProc EXCEPT !.op = "InitiatePayment", !.pc = "ip_existing",
                                          !.user = u, !.order = i, !.method = m])
        /\ UNCHANGED faults
     \/ /\ m \in Methods
        /\ Mobile(m) => phone
        /\ i \in 1..Len(orders)
        /\ CanFail
        /\ faults' = faults + 1
        /\ Start(p, end("404"))
  /\ UNCHANGED << payFrame, orders, payments >>

\* Where("order_id = ?").First(&existingPayment): the first payment of the
\* order by id, if there is one; ids are random, so any of them can be it.
\* The status checks run only when the read returns no error: a read that
\* fails goes on to the insert like a read that finds no payment
IP_Existing(p) ==
  /\ At(p, "InitiatePayment", "ip_existing")
  /\ LET r == procs[p]
         mine == {k \in 1..Len(payments) : payments[k].order_id = r.order}
     IN
     \/ /\ mine = {}
        /\ Step(p, [r EXCEPT !.pc = "ip_create"])
        /\ UNCHANGED faults
     \/ /\ \E k \in mine :
             Step(p, IF payments[k].status \in {"completed", "pending"}
                     THEN [r EXCEPT !.pc = "done", !.result = "400"]
                     ELSE [r EXCEPT !.pc = "ip_create"])
        /\ UNCHANGED faults
     \/ /\ \E k \in mine : payments[k].status \in {"completed", "pending"}
        /\ CanFail
        /\ faults' = faults + 1
        /\ Step(p, [r EXCEPT !.pc = "ip_create"])
  /\ UNCHANGED << payFrame, orders, payments, lastCheck >>

\* database.DB.Create(&payment) with status pending; a mobile method starts
\* its delayed completion task and the handler answers, cash goes on
IP_Create(p) ==
  /\ At(p, "InitiatePayment", "ip_create")
  /\ Len(payments) < MaxPayments
  /\ LET r == procs[p] IN
     \/ /\ payments' = Append(payments,
                          Payment(r.order, "pending",
                                  IF Mobile(r.method) THEN "sleeping" ELSE "none"))
        /\ Step(p, IF Mobile(r.method)
                   THEN [r EXCEPT !.pc = "done", !.result = "200",
                                  !.payment = Len(payments) + 1]
                   ELSE [r EXCEPT !.pc = "cash_status", !.payment = Len(payments) + 1])
        /\ UNCHANGED faults
     \/ /\ CanFail
        /\ faults' = faults + 1
        /\ Step(p, [r EXCEPT !.pc = "done", !.result = "500"])
        /\ UNCHANGED payments
  /\ UNCHANGED << payFrame, orders, lastCheck >>

\* processCashPayment: the payment is completed, then the order confirmed;
\* both errors are dropped
processCashPayment(p) ==
  /\ procs[p].op = "InitiatePayment"
  /\ procs[p].pc \in {"cash_status", "cash_order"}
  /\ LET r == procs[p]
         rec == IF r.pc = "cash_status" THEN [r EXCEPT !.pc = "cash_order"]
                ELSE [r EXCEPT !.pc = "done", !.result = "200"]
     IN
     /\ Step(p, rec)
     /\ \/ /\ IF r.pc = "cash_status"
              THEN /\ payments' = [payments EXCEPT ![r.payment].status = "completed"]
                   /\ UNCHANGED orders
              ELSE /\ orders' = [orders EXCEPT ![r.order].status = "confirmed"]
                   /\ UNCHANGED payments
           /\ UNCHANGED faults
        \/ /\ CanFail
           /\ faults' = faults + 1
           /\ UNCHANGED << payments, orders >>
  /\ UNCHANGED << payFrame, lastCheck >>

\* the delayed task of a mobile payment wakes with the payment it was given:
\* it completes the payment (85%) or fails it, whatever the stored status
simulateAsyncPaymentCompletion(p, k, ok) ==
  /\ k \in 1..Len(payments)
  /\ payments[k].task = "sleeping"
  /\ Start(p, [IdleProc EXCEPT !.op = "PayTask", !.payment = k,
                               !.order = payments[k].order_id,
                               !.pc = IF ok THEN "cp_status" ELSE "fp_status"])
  /\ payments' = [payments EXCEPT ![k].task = "none"]
  /\ UNCHANGED << payFrame, orders, faults >>

\* GetPaymentStatus: the payment as read; a pending one is completed (70%),
\* or failed when it is older than 15 minutes, or left as it is
GetPaymentStatus(p, k, ok) ==
  /\ LET rec == [IdleProc EXCEPT !.op = "PaymentStatus", !.payment = k, !.result = "200"]
     IN
     Start(p, IF k \notin 1..Len(payments)
              THEN [rec EXCEPT !.pc = "done", !.result = "404"]
              ELSE IF payments[k].status # "pending" THEN [rec EXCEPT !.pc = "done"]
              ELSE IF ok
              THEN [rec EXCEPT !.pc = "cp_status", !.order = payments[k].order_id]
              ELSE IF payments[k].aged THEN [rec EXCEPT !.pc = "fp_status"]
              ELSE [rec EXCEPT !.pc = "done"])
  /\ UNCHANGED << payFrame, orders, payments, faults >>

\* completePayment: Update("status", completed), then the order is confirmed
\* (both errors dropped), then awardPaymentXP runs detached
completePayment(p) ==
  /\ procs[p].op \in {"PayTask", "PaymentStatus"}
  /\ procs[p].pc \in {"cp_status", "cp_order"}
  /\ LET r == procs[p]
         rec == IF r.pc = "cp_status" THEN [r EXCEPT !.pc = "cp_order"]
                ELSE [IdleProc EXCEPT !.op = "PaymentXP", !.pc = "pay_insert",
                                      !.user = orders[r.order].buyer_id,
                                      !.order = r.order, !.payment = r.payment,
                                      !.amount = PaymentXP,
                                      !.reason = "Payment Completed",
                                      !.reference = r.payment, !.result = "200"]
     IN
     /\ Step(p, rec)
     /\ \/ /\ IF r.pc = "cp_status"
              THEN /\ payments' = [payments EXCEPT ![r.payment].status = "completed"]
                   /\ UNCHANGED orders
              ELSE /\ orders' = [orders EXCEPT ![r.order].status = "confirmed"]
                   /\ UNCHANGED payments
           /\ UNCHANGED faults
        \/ /\ CanFail
           /\ faults' = faults + 1
           /\ UNCHANGED << payments, orders >>
  /\ UNCHANGED << payFrame, lastCheck >>

\* failPayment: Updates(status: failed); the error is dropped
failPayment(p) ==
  /\ procs[p].op \in {"PayTask", "PaymentStatus"}
  /\ procs[p].pc = "fp_status"
  /\ LET r == procs[p] IN
     /\ Step(p, [r EXCEPT !.pc = "done"])
     /\ \/ /\ payments' = [payments EXCEPT ![r.payment].status = "failed"]
           /\ UNCHANGED faults
        \/ /\ CanFail
           /\ faults' = faults + 1
           /\ UNCHANGED payments
  /\ UNCHANGED << payFrame, orders, lastCheck >>

\* 15 minutes have passed since the payment was created; its delayed task,
\* due after 10 or 15 seconds, has run by then
PaymentAges(k) ==
  /\ k \in 1..Len(payments)
  /\ ~payments[k].aged
  /\ payments[k].task = "none"
  /\ \A q \in Procs : ~(procs[q].op = "PayTask" /\ procs[q].payment = k /\ Active(q))
  /\ payments' = [payments EXCEPT ![k].aged = TRUE]
  /\ UNCHANGED << payFrame, orders, procs, faults, lastCheck >>

\* buyer 1 has placed one order of product 1 with seller 2, rewarded as a
\* first order; it is unpaid, or a mobile payment for it is waiting
InitPay ==
  /\ users = [u \in Users |->
                IF u = 1
                THEN [exists |-> TRUE, role |-> "buyer", level |-> "bronze",
                      total_xp |-> FirstOrderXP + BadgeOf("first_order").xp_reward,
                      total_spent |-> ProductRow(1).price, total_sales |-> 0]
                ELSE IF u = 2
                THEN [exists |-> TRUE, role |-> "seller", level |-> "bronze",
                      total_xp |-> 0, total_spent |-> 0, total_sales |-> 0]
                ELSE NoRow]
  /\ orders = << [buyer_id |-> 1,
                  items |-> << [product_id |-> 1, quantity |-> 1,
                                price |-> ProductRow(1).price] >>,
                  total_amount |-> ProductRow(1).price, status |-> "pending"] >>
  /\ products = [k \in Products |->
                   IF k = 1 THEN [ProductRow(1) EXCEPT !.stock = @ - 1]
                   ELSE ProductRow(k)]
  /\ user_badges = SetToBag({Award(1, "first_order")})
  /\ xp_transactions =
       SetToBag({Tx(1, FirstOrderXP, "First Order", 0),
                 Tx(1, BadgeOf("first_order").xp_reward, BadgeReason("first_order"), 0)})
  /\ procs = [p \in Procs |-> IdleProc]
  /\ faults = 0
  /\ lb_zset = [b \in Boards |-> [u \in Users |-> NoScore]]
  /\ lb_hash = [b \in Boards |-> [u \in Users |-> NoData]]
  /\ lbReply = << >>
  /\ xpReply = << >>
  /\ lastCheck = [u \in Users |-> "none"]
  /\ xpGranted = [u \in Users |-> 0]
  /\ payments \in {<< >>, << Payment(1, "pending", "sleeping") >>}
  /\ sessions = {}
  /\ otps = {}
  /\ clock = 0
  /\ loggedOut = {}
  /\ authReply = << >>
  /\ product_cache = [k \in Products |-> NoProductRow]
  /\ productReply = << >>
  /\ lbRead = << >>

\* payments of the order, their status polls and their delayed tasks
NextPay ==
  \/ \E p \in Procs :
       \/ \E u \in Users, i \in 1..MaxProcs, m \in MethodInputs, phone \in BOOLEAN :
            InitiatePayment(p, u, i, m, phone)
       \/ IP_Existing(p)
       \/ IP_Create(p)
       \/ processCashPayment(p)
       \/ \E k \in 1..MaxPayments, ok \in BOOLEAN : simulateAsyncPaymentCompletion(p, k, ok)
       \/ \E k \in 1..MaxPayments, ok \in BOOLEAN : GetPaymentStatus(p, k, ok)
       \/ completePayment(p)
       \/ failPayment(p)
       \/ Pay_Insert(p)
       \/ Pay_Update(p)
  \/ \E k \in 1..MaxPayments : PaymentAges(k)

SpecPay == InitPay /\ [][NextPay]_vars

\* ------------------------------------------------------------------- C31
\* C31: for every payment the ledger holds at most one "Payment Completed"
\* row, whatever the interleaving of status polls and the delayed task.
C31_PaymentRewardOnce ==
  \A k \in 1..Len(payments) :
    RowsFor(BagToSet(xp_transactions), "Payment Completed", k) <= 1

\* ------------------------------------------------------------------- C32
\* C32: a payment's status changes only while it is pending: a completed
\* payment is never marked failed and a failed one never completed.
C32_StatusOnlyLeavesPending ==
  [][\A k \in 1..Len(payments) :
       payments'[k].status # payments[k].status => payments[k].status = "pending"]_vars

\* ------------------------------------------------------------------- C33
\* C33: every order has at most one payment in pending or completed status.
C33_OneLivePaymentPerOrder ==
  \A i \in 1..Len(orders) :
    Cardinality({k \in 1..Len(payments) :
                   /\ payments[k].order_id = i
                   /\ payments[k].status \in {"pending", "completed"}}) <= 1


\* the accounts exist; seller 2 may have logged in during second 0 and hold
\* the session of that login
InitAuth ==
  /\ users = [u \in Users |->
                [exists |-> TRUE, role |-> RoleOf(u), level |-> "bronze",
                 total_xp |-> 0, total_spent |-> 0, total_sales |-> 0]]
  /\ orders = << >>
  /\ xp_transactions = EmptyBag
  /\ user_badges = EmptyBag
  /\ procs = [p \in Procs |-> IdleProc]
  /\ faults = 0
  /\ lb_zset = [b \in Boards |-> [u \in Users |-> NoScore]]
  /\ lb_hash = [b \in Boards |-> [u \in Users |-> NoData]]
  /\ lbReply = << >>
  /\ xpReply = << >>
  /\ products = Catalogue
  /\ lastCheck = [u \in Users |-> "none"]
  /\ xpGranted = [u \in Users |-> 0]
  /\ payments = << >>
  /\ clock = 0
  /\ sessions \in {{}, {[token |-> GenerateJWT(2, 0), expires_at |-> ExpiryTicks]}}
  /\ otps = {}
  /\ loggedOut = {}
  /\ authReply = << >>
  /\ product_cache = [k \in Products |-> NoProductRow]
  /\ productReply = << >>
  /\ lbRead = << >>

\* accounts with their OTPs, logins, logouts, profile updates and
\* authenticated requests
NextAuth ==
  \/ \E tok \in TokenInputs : AuthMiddleware(tok)
  \/ \E u \in Users : RequestOTP(u)
  \/ \E p \in Procs :
       \/ \E u \in Users, otpOK \in BOOLEAN : Login(p, u, otpOK)
       \/ LG_User(p)
       \/ LG_Save(p)
       \/ LG_Session(p)
       \/ LG_Delete(p)
       \/ \E tok \in TokenInputs : Logout(p, tok)
       \/ LO_Delete(p)
       \/ \E c, u \in Users : UpdateUserProfile(p, c, u)
       \/ UU_Save(p)
  \/ Tick

SpecAuth == InitAuth /\ [][NextAuth]_vars

\* ------------------------------------------------------------------- C36
\* C36: AuthMiddleware lets a request pass only with a valid JWT whose
\* session is in the session store, and it rejects every request that
\* carries a token for which a Logout has succeeded before.
C36_LoggedOutTokenRejected ==
  authReply # << >> =>
    /\ authReply.passed => authReply.jwt_valid /\ authReply.session_found
    /\ authReply.after_logout => ~authReply.passed


\* ------------------------------------------- ProductHandler and its cache
\* request bodies of UpdateProduct: Price, Stock and IsActive are pointers,
\* here the empty set when absent and the set of the value when present
UpdateProductRequest(price, stock, active) ==
  [price |-> price, stock |-> stock, is_active |-> active]

UpdateInputs ==
  {UpdateProductRequest({150}, {}, {}),
   UpdateProductRequest({0}, {0}, {}),
   UpdateProductRequest({}, {}, {FALSE}),
   UpdateProductRequest({}, {}, {})}

\* the "Update fields" block of UpdateProduct
UpdateFields(row, req) ==
  [row EXCEPT
     !.price = IF \E v \in req.price : v > 0
               THEN CHOOSE v \in req.price : TRUE ELSE @,
     !.stock = IF \E v \in req.stock : v >= 0
               THEN CHOOSE v \in req.stock : TRUE ELSE @,
     !.is_active = IF req.is_active # {}
                   THEN CHOOSE v \in req.is_active : TRUE ELSE @]

\* what the product handlers leave alone
shelfFrame == << users, orders, xp_transactions, user_badges, cacheVars,
                 lbReply, xpReply, xpGranted, payVars, authVars, readVars >>

\* an UpdateProduct or DeleteProduct of product k has answered 200
Updated(k) ==
  \E q \in Procs : /\ procs[q].op \in {"UpdateProduct", "DeleteProduct"}
                   /\ procs[q].product = k
                   /\ procs[q].pc = "done" /\ procs[q].result = "200"

\* an UpdateProduct or DeleteProduct of product k is running
UpdateOpen(k) ==
  \E q \in Procs : /\ procs[q].op \in {"UpdateProduct", "DeleteProduct"}
                   /\ procs[q].product = k
                   /\ Active(q)

\* the response of GetProduct, with the stored row at the time of the answer
\* and whether an update of the product had completed by then
ProductResponse(k, row, cached) ==
  [product |-> k, row |-> row, cached |-> cached,
   stored |-> products[k],
   after_update |-> Updated(k) /\ ~UpdateOpen(k)]

\* GetProduct when redis.Get finds the key: the cached product is the answer
GP_Hit(k) ==
  /\ product_cache[k].exists
  /\ productReply' = ProductResponse(k, product_cache[k], TRUE)
  /\ UNCHANGED << shelfFrame, products, procs, faults, lastCheck, product_cache >>

\* GetProduct when redis.Get returns an error: the key is missing or the
\* read failed; the handler goes to the database
GetProduct(p, k) ==
  /\ \/ /\ k \in Products /\ product_cache[k].exists
        /\ CanFail
        /\ faults' = faults + 1
     \/ /\ ~(k \in Products /\ product_cache[k].exists)
        /\ UNCHANGED faults
  /\ Start(p, [IdleProc EXCEPT !.op = "GetProduct", !.pc = "gp_read", !.product = k])
  /\ UNCHANGED << shelfFrame, products, shelfVars >>

\* database.DB.Preload("Seller").First(&product, productID); an error is 404
GP_Read(p) ==
  /\ At(p, "GetProduct", "gp_read")
  /\ LET r == procs[p] IN
     \/ /\ ProductFound(r.product)
        /\ Step(p, [r EXCEPT !.pc = "gp_set", !.row = products[r.product]])
        /\ UNCHANGED faults
     \/ /\ ~ProductFound(r.product)
        /\ Step(p, [r EXCEPT !.pc = "done", !.result = "404"])
        /\ UNCHANGED faults
     \/ /\ CanFail
        /\ faults' = faults + 1
        /\ Step(p, [r EXCEPT !.pc = "done", !.result = "404"])
  /\ UNCHANGED << shelfFrame, products, shelfVars, lastCheck >>

\* redis.Set(cacheKey, product, 5*60), its error dropped, and the answer
GP_Set(p) ==
  /\ At(p, "GetProduct", "gp_set")
  /\ LET r == procs[p] IN
     /\ \/ /\ product_cache' = [product_cache EXCEPT ![r.product] = r.row]
           /\ UNCHANGED faults
        \/ /\ CanFail
           /\ faults' = faults + 1
           /\ UNCHANGED product_cache
     /\ productReply' = ProductResponse(r.product, r.row, FALSE)
     /\ Step(p, [r EXCEPT !.pc = "done", !.result = "200"])
  /\ UNCHANGED << shelfFrame, products, lastCheck >>

\* the key product:<id> reaches its expiry
CacheExpires(k) ==
  /\ product_cache[k].exists
  /\ product_cache' = [product_cache EXCEPT ![k] = NoProductRow]
  /\ UNCHANGED << shelfFrame, products, procs, faults, lastCheck, productReply >>

\* request bodies of CreateProduct: a price and a stock
CreateInputs == {[price |-> 0, stock |-> 0], [price |-> 150, stock |-> 2]}

\* ids no product has yet; uuid.New() takes one of them
FreeProducts == {k \in Products : ~products[k].exists}

\* CreateProduct behind AuthMiddleware: only a seller (403), the price must
\* be positive (400); database.DB.Create(&product) stores an active product
\* of the caller, an error answers 500
CreateProduct(u, req) ==
  /\ users[u].exists
  /\ \/ /\ users[u].role = "seller" /\ req.price > 0
        /\ \E k \in FreeProducts :
             products' = [products EXCEPT ![k] =
                            [exists |-> TRUE, seller_id |-> u, price |-> req.price,
                             stock |-> req.stock, is_active |-> TRUE]]
        /\ UNCHANGED faults
     \/ /\ users[u].role = "seller" /\ req.price > 0
        /\ CanFail
        /\ faults' = faults + 1
        /\ UNCHANGED products
     \/ /\ ~(users[u].role = "seller" /\ req.price > 0)
        /\ UNCHANGED << products, faults >>
  /\ UNCHANGED << shelfFrame, shelfVars, procs, lastCheck >>

\* the product read and the ownership check of UpdateProduct and
\* DeleteProduct; the changed row waits for its write
OwnProduct(op, u, k, changed) ==
  LET end(code) == [IdleProc EXCEPT !.op = op, !.pc = "done", !.user = u,
                                    !.product = k, !.result = code]
  IN  IF ~ProductFound(k) THEN end("404")
      ELSE IF products[k].seller_id # u THEN end("403")
      ELSE [IdleProc EXCEPT !.op = op, !.pc = "up_save", !.user = u,
                            !.product = k, !.row = changed]

\* UpdateProduct behind AuthMiddleware and the seller role, up to Save
UpdateProduct(p, u, k, req) ==
  /\ users[u].exists /\ users[u].role = "seller"
  /\ Start(p, OwnProduct("UpdateProduct", u, k,
                         IF ProductFound(k) THEN UpdateFields(products[k], req)
                         ELSE NoProductRow))
  /\ UNCHANGED << shelfFrame, products, shelfVars, faults >>

\* DeleteProduct behind AuthMiddleware and the seller role, up to the update
DeleteProduct(p, u, k) ==
  /\ users[u].exists /\ users[u].role = "seller"
  /\ Start(p, OwnProduct("DeleteProduct", u, k,
                         IF ProductFound(k) THEN [products[k] EXCEPT !.is_active = FALSE]
                         ELSE NoProductRow))
  /\ UNCHANGED << shelfFrame, products, shelfVars, faults >>

\* database.DB.Save(&product) writes every column of the row the handler
\* holds; Model(&product).Update("is_active", false) writes that column
UP_Save(p) ==
  /\ procs[p].op \in {"UpdateProduct", "DeleteProduct"}
  /\ procs[p].pc = "up_save"
  /\ LET r == procs[p] IN
     \/ /\ products' = [products EXCEPT ![r.product] =
                          IF r.op = "UpdateProduct" THEN r.row
                          ELSE [@ EXCEPT !.is_active = FALSE]]
        /\ Step(p, [r EXCEPT !.pc = "up_clear"])
        /\ UNCHANGED faults
     \/ /\ CanFail
        /\ faults' = faults + 1
        /\ Step(p, [r EXCEPT !.pc = "done", !.result = "500"])
        /\ UNCHANGED products
  /\ UNCHANGED << shelfFrame, shelfVars, lastCheck >>

\* redis.Delete(cacheKey), its error dropped, and the answer
UP_Clear(p) ==
  /\ procs[p].op \in {"UpdateProduct", "DeleteProduct"}
  /\ procs[p].pc = "up_clear"
  /\ LET r == procs[p] IN
     /\ \/ /\ product_cache' = [product_cache EXCEPT ![r.product] = NoProductRow]
           /\ UNCHANGED faults
        \/ /\ CanFail
           /\ faults' = faults + 1
           /\ UNCHANGED product_cache
     /\ Step(p, [r EXCEPT !.pc = "done", !.result = "200"])
  /\ UNCHANGED << shelfFrame, products, productReply, lastCheck >>

\* the catalogue of seller 2, its third product created or not yet, with
\* each key cached or not
InitShelf ==
  /\ users = [u \in Users |->
                [exists |-> TRUE, role |-> RoleOf(u), level |-> "bronze",
                 total_xp |-> 0, total_spent |-> 0, total_sales |-> 0]]
  /\ orders = << >>
  /\ xp_transactions = EmptyBag
  /\ user_badges = EmptyBag
  /\ procs = [p \in Procs |-> IdleProc]
  /\ faults = 0
  /\ lb_zset = [b \in Boards |-> [u \in Users |-> NoScore]]
  /\ lb_hash = [b \in Boards |-> [u \in Users |-> NoData]]
  /\ lbReply = << >>
  /\ xpReply = << >>
  /\ products \in {Catalogue, [Catalogue EXCEPT ![3] = NoProductRow]}
  /\ lastCheck = [u \in Users |-> "none"]
  /\ xpGranted = [u \in Users |-> 0]
  /\ payments = << >>
  /\ sessions = {}
  /\ otps = {}
  /\ clock = 0
  /\ loggedOut = {}
  /\ authReply = << >>
  /\ product_cache \in [Products -> {NoProductRow} \cup {ProductRow(k) : k \in Products}]
  /\ \A k \in Products : product_cache[k] \in {NoProductRow, products[k]}
  /\ productReply = << >>
  /\ lbRead = << >>

NextShelf ==
  \/ \E p \in Procs :
       \/ \E k \in Products \cup {NoProduct} : GetProduct(p, k)
       \/ GP_Read(p)
       \/ GP_Set(p)
       \/ \E u \in Users, k \in Products \cup {NoProduct}, req \in UpdateInputs :
            UpdateProduct(p, u, k, req)
       \/ \E u \in Users, k \in Products \cup {NoProduct} : DeleteProduct(p, u, k)
       \/ UP_Save(p)
       \/ UP_Clear(p)
  \/ \E u \in Users, req \in CreateInputs : CreateProduct(u, req)
  \/ \E k \in Products : GP_Hit(k)
  \/ \E k \in Products : CacheExpires(k)

SpecShelf == InitShelf /\ [][NextShelf]_vars

\* ------------------------------------------------------------------- C37
\* C37: once an UpdateProduct or DeleteProduct of a product has completed
\* and none is running, a GetProduct answered from the cache returns the
\* stored product, never the product as it was before the update.
C37_NoStaleProductAfterUpdate ==
  (productReply # << >> /\ productReply.cached /\ productReply.after_update)
    => productReply.row = productReply.stored

====
